---- MODULE Spec2Model ----
(***************************************************************************)
(* Kno-It research engine: dispatch (ResearchEngine), consensus and        *)
(* variance (ConsensusEngine), outlier isolation (OutlierIsolator) and the *)
(* provider retry / admission layer (LLMProvider.withRetry, rateLimiter).  *)
(*                                                                         *)
(* Texts are sequences of one-character strings, so that splitting,        *)
(* trimming, case folding and punctuation stripping are computed the way   *)
(* the code computes them.                                                 *)
(***************************************************************************)
EXTENDS Integers, Sequences, FiniteSets, TLC

VARIABLES
    \* ---- ConsensusEngine on a frozen response set
    cResponses,     \* the ModelResponse[] handed to the engine
    cPc,            \* "start" | "consensus" | "done" | "derived" | "threw"
    cConsensus,     \* result of calculateConsensus
    cVariance,      \* result of analyzeVariance
    cInsights,      \* result of deriveInsights: the insight types
    cOutliers,      \* result of OutlierIsolator.analyze, with its two detection passes
    \* ---- ResearchEngine: one investigate() call
    topic,          \* the topic argument of investigate
    semanticCache,  \* the research_logs rows that carry a vector, oldest first
    topicVector,    \* the topic embedding, <<>> while undefined
    depth,          \* config.depth
    registered,     \* provider ids held by the ProviderRegistry
    primaryModel,   \* config.primaryModel
    maxCost,        \* config.maxCost in 10^-8 dollar, 0 when unset
    pc,             \* "called" | "embedding" | "ready" | "pass1" | "delay" | "pass2"
                    \* | "analyze" | "store" | "done"
    workflow,       \* the WorkflowConfig of getWorkflow
    slots,          \* per Pass-1 slot: [st, text]
    synth,          \* the Pass-2 call: [st, text]
    calls,          \* every generateText call issued, in order
    results,        \* executeWorkflow's results array
    outcome,        \* what investigate did after dispatch
    storage,        \* storage.logResearch: "idle" | "writing" | "written" | "failed"
    \* ---- LLMProvider.withRetry calls of one provider, behind its rate limiter
    rProvider,      \* this.id of the provider
    rCallers,       \* per withRetry invocation: phase, attempt, history, waits, ...
    rQueue,         \* jobs handed to limiter.schedule and not yet started
    rReservoir,     \* the limiter's reservoir, -1 when it has none
    rOrphans,       \* fn() calls still running after their race timed out
    \* ---- StorageEngine: the audit_cache table
    auditRows,      \* claim_hash -> row of audit_cache, NoRow when absent
    clock,          \* Date.now() in milliseconds
    auditSaves,     \* history: every saveAuditResult call, in order
    auditReply      \* what the last checkAuditCache call returned

consVars == <<cResponses, cPc, cConsensus, cVariance, cInsights, cOutliers>>

retryVars == <<rProvider, rCallers, rQueue, rReservoir, rOrphans>>

dispVars ==
    <<topic, semanticCache, topicVector, depth, registered, primaryModel, maxCost, pc,
      workflow, slots, synth, calls, results, outcome, storage>>

auditVars == <<auditRows, clock, auditSaves, auditReply>>

(***************************************************************************)
(* Characters and strings                                                  *)
(***************************************************************************)
UpperChars ==
    <<"A", "B", "C", "D", "E", "F", "G", "H", "I", "J", "K", "L", "M",
      "N", "O", "P", "Q", "R", "S", "T", "U", "V", "W", "X", "Y", "Z">>

LowerChars ==
    <<"a", "b", "c", "d", "e", "f", "g", "h", "i", "j", "k", "l", "m",
      "n", "o", "p", "q", "r", "s", "t", "u", "v", "w", "x", "y", "z">>

DigitChars == <<"0", "1", "2", "3", "4", "5", "6", "7", "8", "9">>

Range(s) == {s[i] : i \in 1..Len(s)}

InSeq(x, s) == \E i \in 1..Len(s) : s[i] = x

\* \s of the regular expressions
WhiteSpace == {" ", "\t", "\n"}

\* \w of the regular expressions
WordChars == Range(UpperChars) \cup Range(LowerChars) \cup Range(DigitChars) \cup {"_"}

\* the sentence terminators of /[.!?]+/
Terminators == {".", "!", "?"}

LowerChar(c) ==
    IF c \in Range(UpperChars)
    THEN LowerChars[CHOOSE i \in 1..Len(UpperChars)  : UpperChars[i] = c]
    ELSE c

toLowerCase(s) == [i \in 1..Len(s) |-> LowerChar(s[i])]

RECURSIVE trimStart(_)
trimStart(s) ==
    IF s # <<>> /\ Head(s) \in WhiteSpace THEN trimStart(Tail(s)) ELSE s

RECURSIVE trimEnd(_)
trimEnd(s) ==
    IF s # <<>> /\ s[Len(s)] \in WhiteSpace
    THEN trimEnd(SubSeq(s, 1, Len(s) - 1))
    ELSE s

trim(s) == trimEnd(trimStart(s))

\* String.prototype.split with a regular expression /[D]+/: the pieces between
\* maximal runs of characters of D (a leading or trailing run yields an empty piece)
RECURSIVE splitRuns(_, _, _, _)
splitRuns(s, D, cur, inRun) ==
    IF s = <<>> THEN <<cur>>
    ELSE IF Head(s) \in D
         THEN IF inRun
              THEN splitRuns(Tail(s), D, cur, TRUE)
              ELSE <<cur>> \o splitRuns(Tail(s), D, <<>>, TRUE)
         ELSE splitRuns(Tail(s), D, Append(cur, Head(s)), FALSE)

split(s, D) == splitRuns(s, D, <<>>, FALSE)

\* String.prototype.includes
includes(s, pat) ==
    \E i \in 1..(Len(s) - Len(pat) + 1) : SubSeq(s, i, i + Len(pat) - 1) = pat

\* String.prototype.startsWith
startsWith(s, pat) ==
    Len(s) >= Len(pat) /\ SubSeq(s, 1, Len(pat)) = pat

substring(s, from, to) ==
    SubSeq(s, from + 1, IF to < Len(s) THEN to ELSE Len(s))

(***************************************************************************)
(* The response texts the backends may return                              *)
(***************************************************************************)
\* "Cats sleep often. Rate is 15 here."
TxtCats ==
    <<"C", "a", "t", "s", " ", "s", "l", "e", "e", "p", " ", "o", "f", "t", "e", "n", ".", " ",
      "R", "a", "t", "e", " ", "i", "s", " ", "1", "5", " ", "h", "e", "r", "e", ".">>

\* "Cats sleep often! Rate is 18 here."
TxtCatsB ==
    <<"C", "a", "t", "s", " ", "s", "l", "e", "e", "p", " ", "o", "f", "t", "e", "n", "!", " ",
      "R", "a", "t", "e", " ", "i", "s", " ", "1", "8", " ", "h", "e", "r", "e", ".">>

\* "Stocks rally hard? Only 7 gain."
TxtStocks ==
    <<"S", "t", "o", "c", "k", "s", " ", "r", "a", "l", "l", "y", " ", "h", "a", "r", "d", "?",
      " ", "O", "n", "l", "y", " ", "7", " ", "g", "a", "i", "n", ".">>

\* "Birds will not sing. cats, sleep  often."
TxtBirds ==
    <<"B", "i", "r", "d", "s", " ", "w", "i", "l", "l", " ", "n", "o", "t", " ", "s", "i", "n",
      "g", ".", " ", "c", "a", "t", "s", ",", " ", "s", "l", "e", "e", "p", " ", " ", "o", "f",
      "t", "e", "n", ".">>

\* "Too short. Ok!"
TxtShort ==
    <<"T", "o", "o", " ", "s", "h", "o", "r", "t", ".", " ", "O", "k", "!">>

\* "Cats sleep often. Rate is 17 here."
TxtRate17 ==
    <<"C", "a", "t", "s", " ", "s", "l", "e", "e", "p", " ", "o", "f", "t", "e", "n", ".", " ",
      "R", "a", "t", "e", " ", "i", "s", " ", "1", "7", " ", "h", "e", "r", "e", ".">>

\* "Cats sleep often. Rate is 60 here."
TxtRate60 ==
    <<"C", "a", "t", "s", " ", "s", "l", "e", "e", "p", " ", "o", "f", "t", "e", "n", ".", " ",
      "R", "a", "t", "e", " ", "i", "s", " ", "6", "0", " ", "h", "e", "r", "e", ".">>

\* "Stocks rally hard? Only 900 gain."
TxtBoom ==
    <<"S", "t", "o", "c", "k", "s", " ", "r", "a", "l", "l", "y", " ", "h", "a", "r", "d", "?",
      " ", "O", "n", "l", "y", " ", "9", "0", "0", " ", "g", "a", "i", "n", ".">>

\* "Cats definitely sleep often."
TxtSure ==
    <<"C", "a", "t", "s", " ", "d", "e", "f", "i", "n", "i", "t", "e", "l", "y", " ", "s", "l",
      "e", "e", "p", " ", "o", "f", "t", "e", "n", ".">>

\* "Cats usually sleep often."
TxtHedge ==
    <<"C", "a", "t", "s", " ", "u", "s", "u", "a", "l", "l", "y", " ", "s", "l", "e", "e", "p",
      " ", "o", "f", "t", "e", "n", ".">>

\* "Cats definitely sleep often, usually."
TxtBoth ==
    <<"C", "a", "t", "s", " ", "d", "e", "f", "i", "n", "i", "t", "e", "l", "y", " ", "s", "l",
      "e", "e", "p", " ", "o", "f", "t", "e", "n", ",", " ", "u", "s", "u", "a", "l", "l", "y",
      ".">>

\* "Rates 1 1 1 1 1 1 1 here."
TxtOnes ==
    <<"R", "a", "t", "e", "s", " ", "1", " ", "1", " ", "1", " ", "1", " ", "1", " ", "1", " ",
      "1", " ", "h", "e", "r", "e", ".">>

\* "Rate is 1 here."
TxtOne ==
    <<"R", "a", "t", "e", " ", "i", "s", " ", "1", " ", "h", "e", "r", "e", ".">>

\* "Rate is 5 here."
TxtFive ==
    <<"R", "a", "t", "e", " ", "i", "s", " ", "5", " ", "h", "e", "r", "e", ".">>

TextIds ==
    {"cats", "catsB", "stocks", "birds", "short",
     "rate17", "rate60", "boom", "sure", "hedge", "both", "ones", "one", "five"}

Text(id) ==
    CASE id = "cats"   -> TxtCats
      [] id = "catsB"  -> TxtCatsB
      [] id = "stocks" -> TxtStocks
      [] id = "birds"  -> TxtBirds
      [] id = "short"  -> TxtShort
      [] id = "rate17" -> TxtRate17
      [] id = "rate60" -> TxtRate60
      [] id = "boom"   -> TxtBoom
      [] id = "sure"   -> TxtSure
      [] id = "hedge"  -> TxtHedge
      [] id = "both"   -> TxtBoth
      [] id = "ones"   -> TxtOnes
      [] id = "one"    -> TxtOne
      [] id = "five"   -> TxtFive

(***************************************************************************)
(* ConsensusEngine                                                         *)
(***************************************************************************)
\* the literal of `.filter(s => s.length > 10)`
MinClaimLength == 10

RECURSIVE SelectLonger(_, _)
SelectLonger(ss, n) ==
    IF ss = <<>> THEN <<>>
    ELSE IF Len(Head(ss)) > n
         THEN <<Head(ss)>> \o SelectLonger(Tail(ss), n)
         ELSE SelectLonger(Tail(ss), n)

\* text.split(/[.!?]+/).map(s => s.trim()).filter(s => s.length > 10)
sentencesOf(text) ==
    LET pieces  == split(text, Terminators)
        trimmed == [i \in 1..Len(pieces) |-> trim(pieces[i])]
    IN  SelectLonger(trimmed, MinClaimLength)

\* faulty variant: drops the punctuation strip
normalizeClaimKeepPunct(text) == trim(toLowerCase(text))

\* toLowerCase().replace(/[^\w\s]/g, '').trim()
normalizeClaim(text) ==
    LET lower == toLowerCase(text)
        kept  == SelectSeq(lower, LAMBDA c : c \in WordChars \cup WhiteSpace)
    IN  trim(kept)

\* the normalized sentences of each response text
claimKeysOf ==
    [t \in TextIds |->
        LET ss == sentencesOf(Text(t)) IN [i \in 1..Len(ss) |-> normalizeClaim(ss[i])]]

\* one step of the claimMap update for one sentence of one response
addClaim(claims, key, model) ==
    IF \E i \in 1..Len(claims) : claims[i].text = key
    THEN [i \in 1..Len(claims) |->
            IF claims[i].text = key /\ ~InSeq(model, claims[i].mentionedBy)
            THEN [claims[i] EXCEPT !.mentionedBy = Append(@, model)]
            ELSE claims[i]]
    ELSE Append(claims, [text |-> key, mentionedBy |-> <<model>>])

RECURSIVE addSentences(_, _, _)
addSentences(claims, keys, model) ==
    IF keys = <<>> THEN claims
    ELSE addSentences(addClaim(claims, Head(keys), model), Tail(keys), model)

RECURSIVE extractClaimsFrom(_, _)
extractClaimsFrom(claims, responses) ==
    IF responses = <<>> THEN claims
    ELSE extractClaimsFrom(
            addSentences(claims, claimKeysOf[Head(responses).text], Head(responses).model),
            Tail(responses))

\* Array<{text, mentionedBy}> in Map insertion order
extractClaims(responses) == extractClaimsFrom(<<>>, responses)

\* faulty variant: rounds the half down
CeilHalfDown(n) == n \div 2

\* faulty variant: one more than half, rounded up
CeilHalfUp(n) == (n + 1) \div 2 + 1

\* Math.ceil(n / 2)
CeilHalf(n) == (n + 1) \div 2

NoConsensus == [items |-> <<>>, threshold |-> 0, totalResponses |-> 0]

\* faulty variant: never rejects an empty response list
calculateConsensusNeverThrows(responses) == FALSE

calculateConsensusThrows(responses) == Len(responses) = 0

calculateConsensus(responses) ==
    LET allClaims == extractClaims(responses)
        threshold == CeilHalf(Len(responses))
        consensusClaims ==
            SelectSeq(allClaims, LAMBDA c : Len(c.mentionedBy) >= threshold)
    IN  [items |-> [i \in 1..Len(consensusClaims) |->
                      [value          |-> consensusClaims[i].text,
                       confidence     |-> <<Len(consensusClaims[i].mentionedBy),
                                            Len(responses)>>,
                       agreementCount |-> Len(consensusClaims[i].mentionedBy),
                       totalModels    |-> Len(responses),
                       models         |-> consensusClaims[i].mentionedBy]],
         threshold      |-> threshold,
         totalResponses |-> Len(responses)]

NotWord == <<"n", "o", "t">>

\* text.includes('not') for each response text
hasNotOf == [t \in TextIds |-> includes(Text(t), NotWord)]

\* faulty variant: compares neighbouring responses only
PairsInOrderAdjacent(n) == [k \in 1..(n - 1) |-> <<k, k + 1>>]

\* the pairs (i, j), i < j, in the order of the two nested loops
PairsInOrder(n) ==
    LET RECURSIVE rows(_)
        rows(i) == IF i > n THEN <<>>
                   ELSE [k \in 1..(n - i) |-> <<i, i + k>>] \o rows(i + 1)
    IN  rows(1)

findContradictions(responses) ==
    LET hasNot(i) == hasNotOf[responses[i].text]
        hasNegation(p) == (hasNot(p[1]) /\ ~hasNot(p[2])) \/ (~hasNot(p[1]) /\ hasNot(p[2]))
        hits == SelectSeq(PairsInOrder(Len(responses)), hasNegation)
    IN  [k \in 1..Len(hits) |->
            [model1 |-> responses[hits[k][1]].model,
             model2 |-> responses[hits[k][2]].model,
             text1  |-> substring(Text(responses[hits[k][1]].text), 0, 100),
             text2  |-> substring(Text(responses[hits[k][2]].text), 0, 100)]]

\* faulty variant: a score of 2 already counts as high
varianceLevelStrict(score) ==
    IF score = 0 THEN "low" ELSE IF score <= 1 THEN "medium" ELSE "high"

varianceLevel(score) ==
    IF score = 0 THEN "low" ELSE IF score <= 2 THEN "medium" ELSE "high"

NoVariance ==
    [level |-> "low", disagreements |-> <<>>, unique |-> <<>>,
     contradictions |-> <<>>, score |-> 0]

analyzeVariance(responses, consensus) ==
    LET allClaims == extractClaims(responses)
        singles   == SelectSeq(allClaims, LAMBDA c : Len(c.mentionedBy) = 1)
        minority  == SelectSeq(allClaims, LAMBDA c :
                        Len(c.mentionedBy) > 1 /\ Len(c.mentionedBy) < consensus.threshold)
        contradictions == findContradictions(responses)
        varianceScore  == Len(minority) + Len(contradictions)
    IN  [level |-> varianceLevel(varianceScore),
         disagreements |-> [i \in 1..Len(minority) |->
                              [text   |-> minority[i].text,
                               models |-> minority[i].mentionedBy,
                               count  |-> Len(minority[i].mentionedBy)]],
         unique |-> [i \in 1..Len(singles) |->
                       [text       |-> singles[i].text,
                        model      |-> singles[i].mentionedBy[1],
                        confidence |-> "low"]],
         contradictions |-> contradictions,
         score |-> varianceScore]

(***************************************************************************)
(* ProviderRegistry and ModelRegistry                                      *)
(***************************************************************************)
ModelIds ==
    {"gemini-2.5-flash-lite",
     "deepseek-chat",
     "gemini-2.5-flash",
     "gpt-4o-mini",
     "claude-3.5-haiku",
     "gpt-4o",
     "claude-sonnet-4",
     "claude-sonnet-4.5",
     "gemini-2.5-pro",
     "o3",
     "llama-3.3-70b-versatile",
     "llama-3.1-70b-versatile",
     "mixtral-8x7b-32768",
     "gemini-3.0-pro",
     "claude-3.5-sonnet",
     "ollama-llama3"}

\* the characters of a model id, for the prefix tests of getProviderForModel
ModelChars(id) ==
    CASE id = "gemini-2.5-flash-lite" ->
           <<"g", "e", "m", "i", "n", "i", "-", "2", ".", "5", "-", "f", "l", "a", "s", "h", "-", "l", "i", "t", "e">>
      [] id = "deepseek-chat" ->
           <<"d", "e", "e", "p", "s", "e", "e", "k", "-", "c", "h", "a", "t">>
      [] id = "gemini-2.5-flash" ->
           <<"g", "e", "m", "i", "n", "i", "-", "2", ".", "5", "-", "f", "l", "a", "s", "h">>
      [] id = "gpt-4o-mini" ->
           <<"g", "p", "t", "-", "4", "o", "-", "m", "i", "n", "i">>
      [] id = "claude-3.5-haiku" ->
           <<"c", "l", "a", "u", "d", "e", "-", "3", ".", "5", "-", "h", "a", "i", "k", "u">>
      [] id = "gpt-4o" ->
           <<"g", "p", "t", "-", "4", "o">>
      [] id = "claude-sonnet-4" ->
           <<"c", "l", "a", "u", "d", "e", "-", "s", "o", "n", "n", "e", "t", "-", "4">>
      [] id = "claude-sonnet-4.5" ->
           <<"c", "l", "a", "u", "d", "e", "-", "s", "o", "n", "n", "e", "t", "-", "4", ".", "5">>
      [] id = "gemini-2.5-pro" ->
           <<"g", "e", "m", "i", "n", "i", "-", "2", ".", "5", "-", "p", "r", "o">>
      [] id = "o3" ->
           <<"o", "3">>
      [] id = "llama-3.3-70b-versatile" ->
           <<"l", "l", "a", "m", "a", "-", "3", ".", "3", "-", "7", "0", "b", "-", "v", "e", "r", "s", "a", "t", "i", "l", "e">>
      [] id = "llama-3.1-70b-versatile" ->
           <<"l", "l", "a", "m", "a", "-", "3", ".", "1", "-", "7", "0", "b", "-", "v", "e", "r", "s", "a", "t", "i", "l", "e">>
      [] id = "mixtral-8x7b-32768" ->
           <<"m", "i", "x", "t", "r", "a", "l", "-", "8", "x", "7", "b", "-", "3", "2", "7", "6", "8">>
      [] id = "gemini-3.0-pro" ->
           <<"g", "e", "m", "i", "n", "i", "-", "3", ".", "0", "-", "p", "r", "o">>
      [] id = "claude-3.5-sonnet" ->
           <<"c", "l", "a", "u", "d", "e", "-", "3", ".", "5", "-", "s", "o", "n", "n", "e", "t">>
      [] id = "ollama-llama3" ->
           <<"o", "l", "l", "a", "m", "a", "-", "l", "l", "a", "m", "a", "3">>

ProviderIds == {"openai", "anthropic", "gemini", "deepseek", "groq", "ollama", "huggingface"}

\* the provider family getProviderForModel derives from the id's prefix
providerIdForModel(modelId) ==
    LET m == ModelChars(modelId)
    IN  IF startsWith(m, <<"g", "p", "t", "-">>) \/ startsWith(m, <<"o">>) THEN "openai"
        ELSE IF startsWith(m, <<"c", "l", "a", "u", "d", "e">>) THEN "anthropic"
        ELSE IF startsWith(m, <<"g", "e", "m", "i", "n", "i">>) THEN "gemini"
        ELSE IF startsWith(m, <<"d", "e", "e", "p", "s", "e", "e", "k">>) THEN "deepseek"
        ELSE IF startsWith(m, <<"o", "l", "l", "a", "m", "a">>) THEN "ollama"
        ELSE IF startsWith(m, <<"l", "l", "a", "m", "a">>)
                \/ startsWith(m, <<"m", "i", "x", "t", "r", "a", "l">>) THEN "groq"
        ELSE IF includes(m, <<"/">>)
                \/ startsWith(m, <<"m", "i", "s", "t", "r", "a", "l", "a", "i">>)
                \/ startsWith(m, <<"m", "i", "c", "r", "o", "s", "o", "f", "t">>)
             THEN "huggingface"
        ELSE "none"

\* this.providers.get(...): "none" stands for undefined
getProviderForModel(reg, modelId) ==
    IF providerIdForModel(modelId) \in reg
    THEN providerIdForModel(modelId)
    ELSE "none"

\* pricing in cents per million tokens, <<input, output>>; <<0, 0>> for an id the
\* registry does not hold (estimateCost returns 0 for it)
Pricing(modelId) ==
    CASE modelId = "claude-3.5-haiku"      -> <<80, 400>>
      [] modelId = "claude-sonnet-4"       -> <<300, 1500>>
      [] modelId = "claude-sonnet-4.5"     -> <<300, 1500>>
      [] modelId = "gpt-4o-mini"           -> <<15, 60>>
      [] modelId = "gpt-4o"                -> <<250, 1000>>
      [] modelId = "o3"                    -> <<200, 800>>
      [] modelId = "gemini-2.5-flash"      -> <<10, 40>>
      [] modelId = "gemini-2.5-flash-lite" -> <<10, 40>>
      [] modelId = "gemini-2.5-pro"        -> <<125, 1000>>
      [] modelId = "deepseek-chat"         -> <<27, 110>>
      [] OTHER                             -> <<0, 0>>

\* cost in units of 10^-8 dollar
estimateCost(modelId, inputTokens, outputTokens) ==
    inputTokens * Pricing(modelId)[1] + outputTokens * Pricing(modelId)[2]

(***************************************************************************)
(* ResearchEngine.getWorkflow                                              *)
(***************************************************************************)
Depths == {"flash", "budget", "quick", "standard", "verified", "deep-dive", "y-it"}

\* the default budget of $1.00, in units of 10^-8 dollar
DefaultBudget == 100000000

AssumedInputTokens == 2000
AssumedOutputTokens == 1000

Reverse(s) == [i \in 1..Len(s) |-> s[Len(s) + 1 - i]]

FirstOr(s, fallback) == IF s = <<>> THEN fallback ELSE Head(s)

\* the helper `pick` of the y-it case
pick(reg, list, fallback, currentCostSoFar, budget) ==
    LET available(m) == getProviderForModel(reg, m) # "none"
        fits(m) == available(m)
                   /\ currentCostSoFar
                      + estimateCost(m, AssumedInputTokens, AssumedOutputTokens) <= budget
        fitting == SelectSeq(list, fits)
        anyAvailable == SelectSeq(Reverse(list), available)
    IN  IF fitting # <<>> THEN Head(fitting)
        ELSE FirstOr(anyAvailable, fallback)

CandidatesInvA == <<"gemini-2.5-flash", "gpt-4o-mini", "claude-3.5-haiku">>
CandidatesInvB ==
    <<"llama-3.3-70b-versatile", "llama-3.1-70b-versatile", "mixtral-8x7b-32768", "gpt-4o">>
CandidatesGap ==
    <<"gemini-3.0-pro", "gemini-2.5-pro", "gpt-4o", "deepseek-chat", "gemini-2.5-flash">>
CandidatesSyn ==
    <<"gemini-3.0-pro", "gemini-2.5-pro", "claude-3.5-sonnet", "gpt-4o", "gemini-2.5-flash">>

yItModels(reg, primary, cap) ==
    LET budget == IF cap = 0 THEN DefaultBudget ELSE cap
        cost(m) == estimateCost(m, AssumedInputTokens, AssumedOutputTokens)
        invAId == pick(reg, CandidatesInvA, primary, 0, budget)
        costA  == cost(invAId)
        invBId == pick(reg, CandidatesInvB, primary, costA, budget)
        costB  == costA + cost(invBId)
        gapId  == pick(reg, CandidatesGap, primary, costB, budget)
        costG  == costB + cost(gapId)
        synId  == pick(reg, CandidatesSyn, primary, costG, budget)
    IN  <<invAId, invBId, gapId, synId>>

\* the end of the y-it case: passes = 2, validateOutliers = true, tieBreaker = models[3]
yItPreset(models) ==
    [models |-> models, passes |-> 2, validateOutliers |-> TRUE, tieBreaker |-> models[4]]

\* the switch of getWorkflow: models, passes, validateOutliers, tieBreaker
presetOf(d, reg, primary, cap) ==
    CASE d = "flash" ->
            [models |-> <<"gemini-2.5-flash-lite">>, passes |-> 1,
             validateOutliers |-> FALSE, tieBreaker |-> "none"]
      [] d = "budget" ->
            [models |-> <<"deepseek-chat">>, passes |-> 1,
             validateOutliers |-> FALSE, tieBreaker |-> "none"]
      [] d = "quick" ->
            [models |-> <<"gemini-2.5-flash">>, passes |-> 1,
             validateOutliers |-> FALSE, tieBreaker |-> "none"]
      [] d = "standard" ->
            [models |-> <<"gemini-2.5-flash", "gpt-4o-mini", "claude-3.5-haiku">>,
             passes |-> 1, validateOutliers |-> TRUE, tieBreaker |-> "none"]
      [] d = "verified" ->
            [models |-> <<"gemini-2.5-flash", "gpt-4o", "claude-sonnet-4", "deepseek-chat">>,
             passes |-> 1, validateOutliers |-> TRUE, tieBreaker |-> "claude-sonnet-4.5"]
      [] d = "deep-dive" ->
            [models |-> <<"deepseek-chat", "gemini-2.5-flash", "claude-sonnet-4.5",
                          "gpt-4o", "claude-sonnet-4", "gemini-2.5-pro">>,
             passes |-> 2, validateOutliers |-> TRUE, tieBreaker |-> "o3"]
      [] d = "y-it" -> yItPreset(yItModels(reg, primary, cap))
      [] OTHER ->
            [models |-> <<primary>>, passes |-> 1,
             validateOutliers |-> FALSE, tieBreaker |-> "none"]

\* faulty variant: no fallback to the primary model when the filter leaves nothing
smartFallbackNoPrimary(reg, primary, preset) ==
    LET availableModels ==
            SelectSeq(preset.models, LAMBDA m : getProviderForModel(reg, m) # "none")
    IN  [models |-> availableModels,
         passes |-> preset.passes,
         validateOutliers |-> preset.validateOutliers /\ Len(availableModels) > 1,
         tieBreaker |-> "none"]

\* "SMART FALLBACK": the preset filtered by the providers that are registered
smartFallback(reg, primary, preset) ==
    LET availableModels ==
            SelectSeq(preset.models, LAMBDA m : getProviderForModel(reg, m) # "none")
    IN  IF availableModels = <<>>
        THEN [models |-> <<primary>>, passes |-> 1,
              validateOutliers |-> FALSE, tieBreaker |-> "none"]
        ELSE [models |-> availableModels,
              passes |-> preset.passes,
              validateOutliers |-> preset.validateOutliers /\ Len(availableModels) > 1,
              tieBreaker |-> IF preset.tieBreaker # "none"
                                /\ getProviderForModel(reg, preset.tieBreaker) # "none"
                             THEN preset.tieBreaker ELSE "none"]

getWorkflow(d, reg, primary, cap) == smartFallback(reg, primary, presetOf(d, reg, primary, cap))

(***************************************************************************)
(* OutlierIsolator                                                         *)
(***************************************************************************)
IsDigit(c) == c \in Range(DigitChars)

DigitValue(c) == (CHOOSE i \in 1..Len(DigitChars) : DigitChars[i] = c) - 1

RECURSIVE digitRunLen(_, _)
digitRunLen(s, i) ==
    IF i <= Len(s) /\ IsDigit(s[i]) THEN 1 + digitRunLen(s, i + 1) ELSE 0

RECURSIVE digitsValue(_)
digitsValue(ds) ==
    IF ds = <<>> THEN 0
    ELSE 10 * digitsValue(SubSeq(ds, 1, Len(ds) - 1)) + DigitValue(ds[Len(ds)])

\* parseFloat of one match of /\d+\.?\d*/, in tenths (the response texts carry at
\* most one fraction digit)
parseFloat(intDigits, fracDigits) ==
    10 * digitsValue(intDigits) + (IF fracDigits = <<>> THEN 0 ELSE DigitValue(fracDigits[1]))

\* text.match(/\d+\.?\d*/g), left to right, greedy
RECURSIVE matchNumbers(_, _)
matchNumbers(s, i) ==
    IF i > Len(s) THEN <<>>
    ELSE IF ~IsDigit(s[i]) THEN matchNumbers(s, i + 1)
    ELSE LET n    == digitRunLen(s, i)
             dot  == i + n <= Len(s) /\ s[i + n] = "."
             f    == IF dot THEN digitRunLen(s, i + n + 1) ELSE 0
             next == i + n + (IF dot THEN 1 + f ELSE 0)
         IN  <<parseFloat(SubSeq(s, i, i + n - 1), SubSeq(s, i + n + 1, i + n + f))>>
             \o matchNumbers(s, next)

extractNumbers(text) == matchNumbers(text, 1)

numbersOf == [t \in TextIds |-> extractNumbers(Text(t))]

RECURSIVE SumSeq(_)
SumSeq(s) == IF s = <<>> THEN 0 ELSE Head(s) + SumSeq(Tail(s))

RECURSIVE FlatSeq(_)
FlatSeq(ss) == IF ss = <<>> THEN <<>> ELSE Head(ss) \o FlatSeq(Tail(ss))

Abs(x) == IF x < 0 THEN -x ELSE x

\* numbers below 100 ("likely percentages/ratios"), in tenths
PercentLimit == 1000

\* faulty variant: the cut is 3 instead of 2.5
zScoreExceedsThree(values, allValues) ==
    LET n == Len(allValues)
        S == SumSeq(allValues)
        Q == SumSeq([i \in 1..n |-> allValues[i] * allValues[i]])
        k == Len(values)
        a == SumSeq(values) * n - S * k
    IN  a * a > 9 * k * k * (n * Q - S * S)

\* zScore > 2.5 for one response, without the square root:
\* |avg - mean| / stdDev > 5/2  <=>  4 (s n - S k)^2 > 25 k^2 (n Q - S^2)
\* with s, k the response's sum and count, S, Q, n the sum, the sum of squares and
\* the count of all values; stdDev = 0 gives NaN or 0/0, which is not > 2.5
zScoreExceeds(values, allValues) ==
    LET n == Len(allValues)
        S == SumSeq(allValues)
        Q == SumSeq([i \in 1..n |-> allValues[i] * allValues[i]])
        k == Len(values)
        a == SumSeq(values) * n - S * k
    IN  4 * a * a > 25 * k * k * (n * Q - S * S)

detectNumericalOutliers(responses) ==
    LET numbersByModel ==
            [i \in 1..Len(responses) |->
                [model  |-> responses[i].model,
                 values |-> SelectSeq(numbersOf[responses[i].text],
                                      LAMBDA v : v < PercentLimit)]]
        percentages == SelectSeq(numbersByModel, LAMBDA m : Len(m.values) > 0)
        allValues   == FlatSeq([i \in 1..Len(percentages) |-> percentages[i].values])
        flagged     == SelectSeq(percentages, LAMBDA m : zScoreExceeds(m.values, allValues))
    IN  IF Len(percentages) >= 3
        THEN [i \in 1..Len(flagged) |-> flagged[i].model]
        ELSE <<>>

\* new Set(text.toLowerCase().split(/\s+/).filter(w => w.length > 3))
longWords(text) ==
    {w \in Range(split(toLowerCase(text), WhiteSpace)) : Len(w) > 3}

\* new Set(text.toLowerCase().split(/\s+/))
allWords(text) == Range(split(toLowerCase(text), WhiteSpace))

longWordsOf == [t \in TextIds |-> longWords(Text(t))]

allWordsOf == [t \in TextIds |-> allWords(Text(t))]

\* intersection.size / union.size as <<numerator, denominator>>; 0 for an empty union
jaccardSimilarity(setA, setB) ==
    IF Cardinality(setA \cup setB) = 0
    THEN <<0, 1>>
    ELSE <<Cardinality(setA \cap setB), Cardinality(setA \cup setB)>>

RatAdd(x, y) == <<x[1] * y[2] + y[1] * x[2], x[2] * y[2]>>

RECURSIVE RatSum(_)
RatSum(s) == IF s = <<>> THEN <<0, 1>> ELSE RatAdd(Head(s), RatSum(Tail(s)))

\* faulty variant: compares the average similarity with 0 instead of 0.3
avgSimilarityBelowZero(total, others) == total[1] < 0

\* totalSimilarity / (n - 1) < 0.3
avgSimilarityBelow(total, others) == 10 * total[1] < 3 * others * total[2]

detectSemanticOutliers(responses) ==
    LET n == Len(responses)
        words(i) == longWordsOf[responses[i].text]
        others(i) == SelectSeq([j \in 1..n |-> j], LAMBDA j : j # i)
        total(i) == RatSum([k \in 1..(n - 1) |->
                               jaccardSimilarity(words(i), words(others(i)[k]))])
        flagged == SelectSeq([i \in 1..n |-> i],
                             LAMBDA i : avgSimilarityBelow(total(i), n - 1))
    IN  [k \in 1..Len(flagged) |-> responses[flagged[k]].model]

\* s contains pat followed by nDigits digits
includesThenDigits(s, pat, nDigits) ==
    \E i \in 1..(Len(s) - Len(pat) - nDigits + 1) :
        /\ SubSeq(s, i, i + Len(pat) - 1) = pat
        /\ \A d \in 1..nDigits : IsDigit(s[i + Len(pat) - 1 + d])

\* /as of \d{4}|in \d{4}|back in|historically|used to be/i
hasTemporalLanguage(text) ==
    LET l == toLowerCase(text)
    IN  \/ includesThenDigits(l, <<"a", "s", " ", "o", "f", " ">>, 4)
        \/ includesThenDigits(l, <<"i", "n", " ">>, 4)
        \/ includes(l, <<"b", "a", "c", "k", " ", "i", "n">>)
        \/ includes(l, <<"h", "i", "s", "t", "o", "r", "i", "c", "a", "l", "l", "y">>)
        \/ includes(l, <<"u", "s", "e", "d", " ", "t", "o", " ", "b", "e">>)

temporalOf == [t \in TextIds |-> hasTemporalLanguage(Text(t))]

Classification(type, confidence) ==
    [threw |-> FALSE, isOutlier |-> TRUE, type |-> type, confidence |-> confidence]

\* the ReferenceError of the undeclared identifier `consuAvg`
ClassificationThrew ==
    [threw |-> TRUE, isOutlier |-> FALSE, type |-> "none", confidence |-> 0]

\* classifyOutlier(outlier, consensus); confidence in hundredths.  The numeric
\* comparison reads the undeclared `consuAvg`, so whenever both number lists are
\* non-empty the call throws before any classification is returned.
classifyOutlier(outlier, consensus) ==
    LET outlierNumbers == numbersOf[outlier.text]
        consensusNumbers ==
            FlatSeq([i \in 1..Len(consensus) |-> numbersOf[consensus[i].text]])
        consensusWords == UNION {allWordsOf[consensus[i].text] : i \in 1..Len(consensus)}
        outlierWords == allWordsOf[outlier.text]
        overlap == jaccardSimilarity(consensusWords, outlierWords)
    IN  IF Len(outlierNumbers) > 0 /\ Len(consensusNumbers) > 0
        THEN ClassificationThrew
        ELSE IF temporalOf[outlier.text]
        THEN Classification("outdated", 70)
        ELSE IF 5 * overlap[1] < overlap[2]
        THEN Classification("misunderstood-query", 75)
        ELSE Classification("valuable-dissent", 60)

\* OutlierIsolator.analyze from "Combine and classify" on: the report, or
\* threw = TRUE when a classification throws
isolate(responses, allOutlierModels) ==
    LET isOut(r) == r.model \in allOutlierModels
        flagged == SelectSeq(responses, isOut)
        valid   == SelectSeq(responses, LAMBDA r : ~isOut(r))
        classified == [i \in 1..Len(flagged) |->
                         [model |-> flagged[i].model,
                          response |-> flagged[i].text,
                          classification |-> classifyOutlier(flagged[i], valid)]]
    IN  IF Len(responses) < 2
        THEN [threw |-> FALSE, totalResponses |-> Len(responses), outliers |-> <<>>,
              validResponses |-> [i \in 1..Len(responses) |-> responses[i].model]]
        ELSE [threw |-> \E i \in 1..Len(classified) : classified[i].classification.threw,
              totalResponses |-> Len(responses),
              outliers |-> classified,
              validResponses |-> [i \in 1..Len(valid) |-> valid[i].model]]

analyze(responses) ==
    isolate(responses, Range(detectNumericalOutliers(responses))
                       \cup Range(detectSemanticOutliers(responses)))

(***************************************************************************)
(* ConsensusEngine.deriveInsights                                          *)
(***************************************************************************)
Chars(str) ==
    CASE str = "depends on"    -> <<"d", "e", "p", "e", "n", "d", "s", " ", "o", "n">>
      [] str = "depending on"  -> <<"d", "e", "p", "e", "n", "d", "i", "n", "g", " ", "o", "n">>
      [] str = "varies"        -> <<"v", "a", "r", "i", "e", "s">>
      [] str = "typically"     -> <<"t", "y", "p", "i", "c", "a", "l", "l", "y">>
      [] str = "usually"       -> <<"u", "s", "u", "a", "l", "l", "y">>
      [] str = "generally"     -> <<"g", "e", "n", "e", "r", "a", "l", "l", "y">>
      [] str = "can range"     -> <<"c", "a", "n", " ", "r", "a", "n", "g", "e">>
      [] str = "may be"        -> <<"m", "a", "y", " ", "b", "e">>
      [] str = "might be"      -> <<"m", "i", "g", "h", "t", " ", "b", "e">>
      [] str = "if"            -> <<"i", "f">>
      [] str = "unless"        -> <<"u", "n", "l", "e", "s", "s">>
      [] str = "provided that" ->
            <<"p", "r", "o", "v", "i", "d", "e", "d", " ", "t", "h", "a", "t">>
      [] str = "definitely"    -> <<"d", "e", "f", "i", "n", "i", "t", "e", "l", "y">>
      [] str = "certainly"     -> <<"c", "e", "r", "t", "a", "i", "n", "l", "y">>
      [] str = "absolutely"    -> <<"a", "b", "s", "o", "l", "u", "t", "e", "l", "y">>
      [] str = "without doubt" ->
            <<"w", "i", "t", "h", "o", "u", "t", " ", "d", "o", "u", "b", "t">>

conditionals ==
    {"depends on", "depending on", "varies", "typically", "usually", "generally",
     "can range", "may be", "might be", "if", "unless", "provided that"}

strongLanguage == {"definitely", "certainly", "absolutely", "without doubt"}

hasConditionalLanguage(text) ==
    \E keyword \in conditionals : includes(toLowerCase(text), Chars(keyword))

hasStrongLanguage(text) ==
    \E word \in strongLanguage : includes(toLowerCase(text), Chars(word))

conditionalOf == [t \in TextIds |-> hasConditionalLanguage(Text(t))]

strongOf == [t \in TextIds |-> hasStrongLanguage(Text(t))]

\* faulty variant: hedging by more than half of the responses
highConfidenceIsOutlierMajority(highConfidenceCount, hedgingCount, n) ==
    highConfidenceCount = 1 /\ 2 * hedgingCount > n

\* highConfidenceCount === 1 && hedgingCount > 1
highConfidenceIsOutlier(highConfidenceCount, hedgingCount, n) ==
    highConfidenceCount = 1 /\ hedgingCount > 1

analyzeConfidenceLevels(responses) ==
    LET n == Len(responses)
        highConfidenceCount == Cardinality({i \in 1..n : strongOf[responses[i].text]})
        hedgingCount == Cardinality({i \in 1..n : conditionalOf[responses[i].text]})
    IN  [highConfidenceIsOutlier |->
            highConfidenceIsOutlier(highConfidenceCount, hedgingCount, n),
         hedgingIsCommon |-> 2 * hedgingCount > n]

extractNumericalData(responses) ==
    FlatSeq([i \in 1..Len(responses) |-> numbersOf[responses[i].text]])

\* stats.stdDev > stats.mean * 0.3 without the square root: the values are not
\* negative, so it is n Q - S^2 > 9 S^2 / 100, with the right side rounded down
highNumericalVariance(data) ==
    LET n == Len(data)
        S == SumSeq(data)
        Q == SumSeq([i \in 1..n |-> data[i] * data[i]])
    IN  n * Q - S * S > 9 * ((S * S) \div 100) + (9 * ((S * S) % 100)) \div 100

\* the types of the insights, in the order they are pushed
deriveInsights(responses, consensus, variance) ==
    LET when(cond, type) == IF cond THEN <<type>> ELSE <<>>
        numericalData == extractNumericalData(responses)
    IN  when(variance.level = "low" /\ Len(consensus.items) > 0, "convergent-confidence")
        \o when(variance.level = "high"
                  /\ \E i \in 1..Len(responses) : conditionalOf[responses[i].text],
                "context-dependency")
        \o when(Len(variance.unique) > 0, "unique-claims")
        \o when(Len(variance.contradictions) > 0, "contradictions")
        \o when(Len(numericalData) > 0 /\ highNumericalVariance(numericalData),
                "numerical-variance")
        \o when(analyzeConfidenceLevels(responses).highConfidenceIsOutlier,
                "overconfidence-flag")

(***************************************************************************)
(* ResearchEngine.executeWorkflow and the tail of investigate              *)
(***************************************************************************)
\* texts a backend may answer with
RespTexts == {"cats", "catsB", "stocks"}

CloudProviders == {"openai", "anthropic", "gemini", "deepseek", "groq"}

PrimaryModels == {"gemini-2.5-flash", "deepseek-chat"}

\* config.maxCost: unset, $0.0005, $0.001, $0.02
MaxCosts == {0, 50000, 100000, 2000000}

NoWorkflow == [models |-> <<>>, passes |-> 0, validateOutliers |-> FALSE, tieBreaker |-> "none"]

NoSynth == [st |-> "none", text |-> "none"]

\* the error object that leaves investigate; "none" for a property it does not have
NoThrown == [name |-> "none", phase |-> "none", topic |-> "none", cause |-> "none"]

\* a ZodError, Error, ReferenceError or SqliteError as thrown: no phase, topic or
\* originalError property (ResearchError is imported and constructed nowhere)
rawError(name) == [NoThrown EXCEPT !.name = name]

NoCosts == [byModel |-> <<>>, total |-> 0]

NoOutcome ==
    [status |-> "pending", error |-> "none", consensusInvoked |-> FALSE,
     consensusInput |-> <<>>, allFlagged |-> FALSE, modelsUsed |-> <<>>,
     totalQueries |-> 0, confirmed |-> <<>>,
     thrown |-> NoThrown, costBreakdown |-> NoCosts, fromCache |-> FALSE, cached |-> "none"]

\* workflow.models.slice(0, workflow.models.length - 1)
modelsToRun(wf) == SubSeq(wf.models, 1, Len(wf.models) - 1)

sequentialMode(d) == d = "y-it"

Settled(slot) == slot.st \in {"ok", "failed", "skipped"}

\* a slot whose generateText call has been started (or skipped for want of a provider)
issueSlot(reg, modelId) ==
    IF getProviderForModel(reg, modelId) = "none"
    THEN [st |-> "skipped", text |-> "none"]
    ELSE [st |-> "inflight", text |-> "none"]

pass1Call(i, modelId) == [pass |-> 1, slot |-> i, model |-> modelId, prompt |-> <<>>]

\* parallel mode: the generateText calls of the map callbacks that found a provider
parallelCalls(run, ss) ==
    LET idx == SelectSeq([i \in 1..Len(run) |-> i], LAMBDA i : ss[i].st = "inflight")
    IN  [k \in 1..Len(idx) |-> pass1Call(idx[k], run[idx[k]])]

\* sequential mode: the loop from index i on, skipping ("continue") the models
\* without a provider, up to the next generateText call
\* faulty variant: every remaining agent is started at once
startAgentsAtOnce(reg, run, ss, i) ==
    [j \in 1..Len(ss) |-> IF j >= i THEN issueSlot(reg, run[j]) ELSE ss[j]]

RECURSIVE startAgents(_, _, _, _)
startAgents(reg, run, ss, i) ==
    IF i > Len(run) THEN ss
    ELSE IF getProviderForModel(reg, run[i]) = "none"
    THEN startAgents(reg, run, [ss EXCEPT ![i] = issueSlot(reg, run[i])], i + 1)
    ELSE [ss EXCEPT ![i] = issueSlot(reg, run[i])]

\* the fulfilled results of the slots, in slot order
collectResults(wf, ss) ==
    LET okIdx == SelectSeq([i \in 1..Len(ss) |-> i], LAMBDA i : ss[i].st = "ok")
    IN  [k \in 1..Len(okIdx) |-> [model |-> wf.models[okIdx[k]], text |-> ss[okIdx[k]].text]]

\* faulty variant: leaves the last report out of the synthesis prompt
synthesisPromptDropLast(res) ==
    [i \in 1..(Len(res) - 1) |-> <<res[i].model, res[i].text>>]

\* results.map(r => `[${r.model}]: ${r.text}`).join(...): each report with its attribution
synthesisPrompt(res) == [i \in 1..Len(res) |-> <<res[i].model, res[i].text>>]

\* workflow.models[synthesizerIndex] || workflow.models[0]
synthesizerId(wf) == wf.models[Len(wf.models)]

\* "Pass 2: Refinement": whether the synthesis call is issued
pass2Runs(reg, wf, res) ==
    /\ wf.passes > 1
    /\ Len(res) > 0
    /\ getProviderForModel(reg, synthesizerId(wf)) # "none"

\* what follows Pass 1 in executeWorkflow, given the results gathered so far
AfterPass1(wf, res) ==
    IF pass2Runs(registered, wf, res)
    THEN /\ synth' = [st |-> "inflight", text |-> "none"]
         /\ calls' = Append(calls, [pass |-> 2, slot |-> Len(wf.models),
                                    model |-> synthesizerId(wf),
                                    prompt |-> synthesisPrompt(res)])
         /\ pc' = "pass2"
    ELSE /\ pc' = "analyze"
         /\ UNCHANGED <<synth, calls>>

\* sequential mode: the loop goes on from index i with the results gathered so far
SeqAdvance(wf, ss, res, i) ==
    LET run == modelsToRun(wf)
        ss2 == startAgents(registered, run, ss, i)
    IN  /\ slots' = ss2
        /\ IF \E j \in 1..Len(ss2) : ss2[j].st = "inflight"
           THEN LET j == CHOOSE k \in 1..Len(ss2) : ss2[k].st = "inflight"
                IN  /\ calls' = Append(calls, pass1Call(j, run[j]))
                    /\ pc' = "pass1"
                    /\ UNCHANGED synth
           ELSE AfterPass1(wf, res)

\* investigate() up to the first generateText call: getWorkflow, then the start of
\* Pass 1 (every call at once in parallel mode, the first call in sequential mode)
\* executeWorkflow up to the first await of Pass 1
startPass1(wf, run) ==
    /\ workflow' = wf
    /\ IF run = <<>>
       THEN /\ slots' = <<>>
            /\ results' = <<>>
            /\ AfterPass1(wf, <<>>)
       ELSE IF sequentialMode(depth)
       THEN /\ SeqAdvance(wf, [i \in 1..Len(run) |-> [st |-> "pending", text |-> "none"]],
                          <<>>, 1)
            /\ results' = <<>>
       ELSE LET ss == [i \in 1..Len(run) |-> issueSlot(registered, run[i])]
            IN  /\ slots' = ss
                /\ IF \A j \in 1..Len(ss) : Settled(ss[j])
                   THEN /\ results' = <<>>
                        /\ AfterPass1(wf, <<>>)
                   ELSE /\ calls' = parallelCalls(run, ss)
                        /\ pc' = "pass1"
                        /\ UNCHANGED <<results, synth>>

executeWorkflow(wf) == startPass1(wf, modelsToRun(wf))

(***************************************************************************)
(* investigate(): validation and the semantic cache                        *)
(***************************************************************************)
TopicIds == {"empty", "blank", "cats", "long"}

TopicMinLength == 1
TopicMaxLength == 2000

TopicText(id) ==
    CASE id = "empty" -> <<>>
      [] id = "blank" -> <<" ", " ">>
      [] id = "cats"  -> <<" ", "D", "o", " ", "c", "a", "t", "s", " ", "n", "a", "p", "?", " ">>
      [] id = "long"  -> [i \in 1..(TopicMaxLength + 1) |-> "a"]

\* faulty variant: the schema lets every string through
topicRejectedNever(raw) == FALSE

\* TopicSchema.parse throws: z.string().min(1).max(2000), both tested on the raw string
topicRejected(raw) == Len(raw) < TopicMinLength \/ Len(raw) > TopicMaxLength

\* the value TopicSchema.parse returns: .transform(s => s.trim())
validatedTopic(raw) == trim(raw)

\* registries with the local Ollama provider (USE_OLLAMA or OLLAMA_BASE_URL set)
LocalRegistries == {{"ollama"}, {"ollama", "openai"}, {"ollama", "openai", "gemini"}}

\* the depths under which topics, logged rows and embeddings are varied
CacheDepths == {"flash", "standard"}

\* a row of research_logs: its vector column (parsed), the logged result, its topic
LogRow(vector, logged) == [vector |-> vector, logged |-> logged, topic |-> <<"t">>]

Caches ==
    {<<>>,
     <<LogRow(<<5, 2>>, "B"), LogRow(<<5, 0>>, "A")>>,
     <<LogRow(<<5, 0, 0>>, "D"), LogRow(<<5, 2>>, "B")>>,
     <<LogRow(<<0, 5>>, "C"), LogRow(<<0, 0>>, "Z"), LogRow(<<5, 0>>, "A")>>}

\* what gemini.getEmbedding settles with: a vector, or <<>> when it returns nothing or
\* throws (the catch around the cache check logs and goes on)
Embeddings == {<<>>, <<5, 0>>, <<4, 3>>, <<0, 5>>, <<0, 0>>}

EmbeddingsFor(d) == IF d \in CacheDepths THEN Embeddings ELSE {<<>>}

\* typeof gemini.getEmbedding === 'function' for the registered Gemini provider
hasGetEmbedding(reg) == "gemini" \in reg

Dot(vecA, vecB) == SumSeq([i \in 1..Len(vecA) |-> vecA[i] * vecB[i]])

\* cosineSimilarity: the value num / sqrt(den2); NaN (0 / 0) when den2 = 0
cosineSimilarity(vecA, vecB) ==
    [num |-> Dot(vecA, vecB), den2 |-> Dot(vecA, vecA) * Dot(vecB, vecB)]

MinusOne == [num |-> -1, den2 |-> 1]

SignedSquare(x) == IF x < 0 THEN -(x * x) ELSE x * x

\* score > bestScore; false when either side is NaN
scoreGreater(score, bestScore) ==
    /\ score.den2 # 0
    /\ bestScore.den2 # 0
    /\ SignedSquare(score.num) * bestScore.den2 > SignedSquare(bestScore.num) * score.den2

\* bestScore >= threshold, the threshold in hundredths
scoreAtLeast(bestScore, threshold) ==
    /\ bestScore.den2 # 0
    /\ bestScore.num >= 0
    /\ 10000 * bestScore.num * bestScore.num >= threshold * threshold * bestScore.den2

SemanticThreshold == 92

NoMatch == [hit |-> FALSE, logged |-> "none", similarityScore |-> MinusOne]

\* faulty variant: the first row at or above the threshold, not the best one
RECURSIVE checkSemanticCacheFirst(_, _, _)
checkSemanticCacheFirst(rows, embedding, threshold) ==
    IF rows = <<>> THEN NoMatch
    ELSE IF Len(Head(rows).vector) = Len(embedding)
            /\ scoreAtLeast(cosineSimilarity(embedding, Head(rows).vector), threshold)
    THEN [hit |-> TRUE, logged |-> Head(rows).logged,
          similarityScore |-> cosineSimilarity(embedding, Head(rows).vector)]
    ELSE checkSemanticCacheFirst(Tail(rows), embedding, threshold)

\* the loop of checkSemanticCache over the rows: <<bestScore, bestMatch>>
RECURSIVE bestRow(_, _, _, _)
bestRow(rows, embedding, bestScore, bestMatch) ==
    IF rows = <<>> THEN <<bestScore, bestMatch>>
    ELSE IF Len(Head(rows).vector) = Len(embedding)
            /\ scoreGreater(cosineSimilarity(embedding, Head(rows).vector), bestScore)
    THEN bestRow(Tail(rows), embedding,
                 cosineSimilarity(embedding, Head(rows).vector), Head(rows).logged)
    ELSE bestRow(Tail(rows), embedding, bestScore, bestMatch)

matchOf(best, threshold) ==
    IF scoreAtLeast(best[1], threshold)
    THEN [hit |-> TRUE, logged |-> best[2], similarityScore |-> best[1]]
    ELSE NoMatch

checkSemanticCache(rows, embedding, threshold) ==
    matchOf(bestRow(rows, embedding, MinusOne, "none"), threshold)

\* the INSERT of logResearch, seen through `WHERE vector IS NOT NULL`
insertLog(rows, raw, vector) ==
    IF vector = <<>> THEN rows
    ELSE Append(rows, [vector |-> vector, logged |-> "new", topic |-> validatedTopic(raw)])

\* investigate() up to its first await: TopicSchema.parse, then the embedding request
Investigate ==
    /\ pc = "called"
    /\ IF topicRejected(TopicText(topic))
       THEN /\ outcome' = [NoOutcome EXCEPT !.status = "rejected", !.error = "validation",
                                            !.thrown = rawError("ZodError")]
            /\ pc' = "done"
       ELSE /\ pc' = IF hasGetEmbedding(registered) THEN "embedding" ELSE "ready"
            /\ UNCHANGED outcome
    /\ UNCHANGED <<topic, semanticCache, topicVector, depth, registered, primaryModel,
                   maxCost, workflow, slots, synth, calls, results, storage>>
    /\ UNCHANGED <<consVars, retryVars, auditVars>>

cacheReply(cached) ==
    IF cached.hit
    THEN /\ outcome' = [NoOutcome EXCEPT !.status = "cached", !.fromCache = TRUE,
                                         !.cached = cached.logged]
         /\ pc' = "done"
    ELSE /\ pc' = "ready"
         /\ UNCHANGED outcome

\* getEmbedding settled: the cache lookup, and on a hit the return of the logged result
EmbeddingSettles(e) ==
    /\ pc = "embedding"
    /\ e \in EmbeddingsFor(depth)
    /\ topicVector' = e
    /\ cacheReply(IF e = <<>> THEN NoMatch
                  ELSE checkSemanticCache(semanticCache, e, SemanticThreshold))
    /\ UNCHANGED <<topic, semanticCache, depth, registered, primaryModel,
                   maxCost, workflow, slots, synth, calls, results, storage>>
    /\ UNCHANGED <<consVars, retryVars, auditVars>>

StartInvestigate ==
    /\ pc = "ready"
    /\ executeWorkflow(getWorkflow(depth, registered, primaryModel, maxCost))
    /\ UNCHANGED <<depth, registered, primaryModel, maxCost, outcome>>
    /\ UNCHANGED <<topic, semanticCache, topicVector, storage>>
    /\ UNCHANGED <<consVars, retryVars, auditVars>>

\* parallel mode: one call settles; the last one to settle passes the Promise.all
\* barrier, after which the fulfilled results are pushed in slot order
SettleParallel(i, st, text) ==
    /\ pc = "pass1"
    /\ ~sequentialMode(depth)
    /\ slots[i].st = "inflight"
    /\ LET ss == [slots EXCEPT ![i] = [st |-> st, text |-> text]]
       IN  /\ slots' = ss
           /\ IF \A j \in 1..Len(ss) : Settled(ss[j])
              THEN /\ results' = collectResults(workflow, ss)
                   /\ AfterPass1(workflow, collectResults(workflow, ss))
              ELSE UNCHANGED <<results, synth, calls, pc>>
    /\ UNCHANGED <<depth, registered, primaryModel, maxCost, workflow, outcome>>
    /\ UNCHANGED <<topic, semanticCache, topicVector, storage>>
    /\ UNCHANGED <<consVars, retryVars, auditVars>>

Pass1Succeeds == \E i \in 1..Len(slots), t \in RespTexts : SettleParallel(i, "ok", t)

Pass1Fails == \E i \in 1..Len(slots) : SettleParallel(i, "failed", "none")

\* sequential mode: the call in flight settles; a fulfilled result is pushed at once;
\* then the 5 s stretch, or the end of Pass 1 after the last slot
SettleSequential(i, st, text) ==
    /\ pc = "pass1"
    /\ sequentialMode(depth)
    /\ slots[i].st = "inflight"
    /\ slots' = [slots EXCEPT ![i] = [st |-> st, text |-> text]]
    /\ LET res == IF st = "ok"
                  THEN Append(results, [model |-> workflow.models[i], text |-> text])
                  ELSE results
       IN  /\ results' = res
           /\ IF i < Len(slots)
              THEN pc' = "delay" /\ UNCHANGED <<synth, calls>>
              ELSE AfterPass1(workflow, res)
    /\ UNCHANGED <<depth, registered, primaryModel, maxCost, workflow, outcome>>
    /\ UNCHANGED <<topic, semanticCache, topicVector, storage>>
    /\ UNCHANGED <<consVars, retryVars, auditVars>>

AgentSucceeds == \E i \in 1..Len(slots), t \in RespTexts : SettleSequential(i, "ok", t)

AgentFails == \E i \in 1..Len(slots) : SettleSequential(i, "failed", "none")

\* the 5000 ms timer fires and the next agent starts
StretchElapsed ==
    /\ pc = "delay"
    /\ LET i == CHOOSE j \in 1..Len(slots) :
                    slots[j].st = "pending" /\ \A k \in 1..(j - 1) : slots[k].st # "pending"
       IN  SeqAdvance(workflow, slots, results, i)
    /\ UNCHANGED <<depth, registered, primaryModel, maxCost, workflow, results, outcome>>
    /\ UNCHANGED <<topic, semanticCache, topicVector, storage>>
    /\ UNCHANGED <<consVars, retryVars, auditVars>>

SynthSucceeds ==
    /\ pc = "pass2"
    /\ synth.st = "inflight"
    /\ \E t \in RespTexts :
          /\ synth' = [st |-> "ok", text |-> t]
          /\ results' = Append(results, [model |-> synthesizerId(workflow), text |-> t])
    /\ pc' = "analyze"
    /\ UNCHANGED <<depth, registered, primaryModel, maxCost, workflow, slots, calls, outcome>>
    /\ UNCHANGED <<topic, semanticCache, topicVector, storage>>
    /\ UNCHANGED <<consVars, retryVars, auditVars>>

SynthFails ==
    /\ pc = "pass2"
    /\ synth.st = "inflight"
    /\ synth' = [st |-> "failed", text |-> "none"]
    /\ pc' = "analyze"
    /\ UNCHANGED <<depth, registered, primaryModel, maxCost, workflow, slots, calls,
                   results, outcome>>
    /\ UNCHANGED <<topic, semanticCache, topicVector, storage>>
    /\ UNCHANGED <<consVars, retryVars, auditVars>>

\* faulty variant: omits the fallback to the raw dataset
validResponsesNoFallback(responses, report) ==
    SelectSeq(responses, LAMBDA r : InSeq(r.model, report.validResponses))

\* responses.filter(r => report.validResponses.includes(r.model)), then the
\* fallback to the raw dataset when every response was rejected
validResponsesOf(responses, report) ==
    LET valid == SelectSeq(responses, LAMBDA r : InSeq(r.model, report.validResponses))
    IN  IF Len(valid) = 0 THEN responses ELSE valid

confidenceTier(conf) ==
    IF 10 * conf[1] > 8 * conf[2] THEN "high"
    ELSE IF 10 * conf[1] > 5 * conf[2] THEN "medium" ELSE "low"

\* the usage a backend reports with a reply
ReplyUsage == [inputTokens |-> 500, outputTokens |-> 200]

\* r.costEstimate as the providers compute it from the reported usage
costEstimateOf(modelId) ==
    estimateCost(modelId, ReplyUsage.inputTokens, ReplyUsage.outputTokens)

\* responses.reduce((acc, r) => { acc[r.model] = r.costEstimate; return acc }, {})
byModelOf(responses) ==
    [m \in {responses[i].model : i \in 1..Len(responses)} |-> costEstimateOf(m)]

\* costBreakdown: byModel keyed by model id, total summed over the responses
costBreakdownOf(responses) ==
    [byModel |-> byModelOf(responses),
     total   |-> SumSeq([i \in 1..Len(responses) |-> costEstimateOf(responses[i].model)])]

\* investigate() after executeWorkflow returned: outlier analysis, consensus, result
buildResult(responses, report, valid, consensus) ==
    IF report.threw
        THEN [NoOutcome EXCEPT !.status = "rejected", !.error = "outlier",
                               !.thrown = rawError("ReferenceError")]
        ELSE IF calculateConsensusThrows(valid)
        THEN [NoOutcome EXCEPT !.status = "rejected", !.error = "consensus",
                               !.thrown = rawError("Error"),
                               !.consensusInvoked = TRUE,
                               !.allFlagged = (report.validResponses = <<>>)]
        ELSE [status |-> "result", error |-> "none", consensusInvoked |-> TRUE,
              consensusInput |-> valid,
              allFlagged |-> (report.validResponses = <<>>),
              modelsUsed |-> [i \in 1..Len(responses) |-> responses[i].model],
              totalQueries |-> Len(responses),
              thrown |-> NoThrown,
              costBreakdown |-> costBreakdownOf(responses),
              fromCache |-> FALSE,
              cached |-> "none",
              confirmed |-> [i \in 1..Len(consensus.items) |->
                               [claim |-> consensus.items[i].value,
                                confidence |-> confidenceTier(consensus.items[i].confidence),
                                agreedBy |-> consensus.items[i].models]]]

consensusStep(responses, report, valid) ==
    buildResult(responses, report, valid, calculateConsensus(valid))

filterStep(responses, report) ==
    consensusStep(responses, report, validResponsesOf(responses, report))

investigateTail(responses) == filterStep(responses, analyze(responses))

\* the tail of investigate up to the call of storage.logResearch; a rejection ends
\* investigate before the call
handOver(result) ==
    /\ outcome' = result
    /\ IF result.status = "result"
       THEN pc' = "store" /\ storage' = "writing"
       ELSE pc' = "done" /\ UNCHANGED storage

Analyze ==
    /\ pc = "analyze"
    /\ handOver(investigateTail(results))
    /\ UNCHANGED <<depth, registered, primaryModel, maxCost, workflow, slots, synth, calls,
                   results>>
    /\ UNCHANGED <<topic, semanticCache, topicVector>>
    /\ UNCHANGED <<consVars, retryVars, auditVars>>

\* logResearch ran to its end (insert, artifact, backup, all synchronous; a failed
\* artifact or backup copy is caught and logged) and investigate returns the result
LogResearchReturns ==
    /\ pc = "store"
    /\ storage' = "written"
    /\ semanticCache' = insertLog(semanticCache, TopicText(topic), topicVector)
    /\ pc' = "done"
    /\ UNCHANGED <<depth, registered, primaryModel, maxCost, workflow, slots, synth, calls,
                   results, outcome>>
    /\ UNCHANGED <<topic, topicVector>>
    /\ UNCHANGED <<consVars, retryVars, auditVars>>

\* the insert of logResearch throws (better-sqlite3 reports a busy or failing database
\* by an exception); nothing catches it and investigate rejects
LogResearchThrows ==
    /\ pc = "store"
    /\ storage' = "failed"
    /\ outcome' = [outcome EXCEPT !.status = "rejected", !.error = "storage",
                                  !.thrown = rawError("SqliteError")]
    /\ pc' = "done"
    /\ UNCHANGED <<depth, registered, primaryModel, maxCost, workflow, slots, synth, calls,
                   results>>
    /\ UNCHANGED <<topic, semanticCache, topicVector>>
    /\ UNCHANGED <<consVars, retryVars, auditVars>>

DispInit ==
    /\ depth \in Depths
    /\ registered \in (SUBSET CloudProviders) \cup LocalRegistries
    /\ primaryModel \in (IF "ollama" \in registered THEN {"ollama-llama3"} ELSE PrimaryModels)
    /\ maxCost \in (IF depth = "y-it" THEN MaxCosts ELSE {0})
    /\ topic \in (IF depth \in CacheDepths THEN TopicIds ELSE {"cats"})
    /\ semanticCache \in (IF depth \in CacheDepths THEN Caches ELSE {<<>>})
    /\ topicVector = <<>>
    /\ pc = "called"
    /\ workflow = NoWorkflow
    /\ slots = <<>>
    /\ synth = NoSynth
    /\ calls = <<>>
    /\ results = <<>>
    /\ outcome = NoOutcome
    /\ storage = "idle"

DispIdle ==
    /\ topic = "cats"
    /\ semanticCache = <<>>
    /\ topicVector = <<>>
    /\ depth = "flash"
    /\ registered = {}
    /\ primaryModel = "gemini-2.5-flash"
    /\ maxCost = 0
    /\ pc = "idle"
    /\ workflow = NoWorkflow
    /\ slots = <<>>
    /\ synth = NoSynth
    /\ calls = <<>>
    /\ results = <<>>
    /\ outcome = NoOutcome
    /\ storage = "idle"

DispNext ==
    \/ Investigate
    \/ \E e \in Embeddings : EmbeddingSettles(e)
    \/ StartInvestigate
    \/ Pass1Succeeds
    \/ Pass1Fails
    \/ AgentSucceeds
    \/ AgentFails
    \/ StretchElapsed
    \/ SynthSucceeds
    \/ SynthFails
    \/ Analyze
    \/ LogResearchReturns
    \/ LogResearchThrows

(***************************************************************************)
(* LLMProvider.withRetry and core/rateLimiter                              *)
(***************************************************************************)
\* withRetry's default maxRetries
MaxRetries == 3

\* withRetry's default baseDelay, in ms
BaseDelay == 1000

\* TIMEOUTS.DEFAULT, in ms
TimeoutDefault == 30000

\* the errors an attempt may end with
ErrorIds == {"e429", "e429key", "e500", "e401", "eKey", "eAuth", "timeout"}

\* error.status; 0 stands for undefined
ErrStatus(e) ==
    CASE e = "e429"    -> 429
      [] e = "e429key" -> 429
      [] e = "e500"    -> 500
      [] e = "e401"    -> 401
      [] OTHER         -> 0

\* error.message
ErrMessage(e) ==
    CASE e = "e429"    -> <<"T", "o", "o", " ", "M", "a", "n", "y", " ", "R", "e", "q", "u", "e", "s", "t", "s">>
      [] e = "e429key" -> <<"Q", "u", "o", "t", "a", " ", "e", "x", "c", "e", "e", "d", "e", "d", " ", "f", "o", "r", " ", "t", "h", "i", "s", " ", "A", "P", "I", " ", "k", "e", "y">>
      [] e = "e500"    -> <<"I", "n", "t", "e", "r", "n", "a", "l", " ", "S", "e", "r", "v", "e", "r", " ", "E", "r", "r", "o", "r">>
      [] e = "e401"    -> <<"U", "n", "a", "u", "t", "h", "o", "r", "i", "z", "e", "d">>
      [] e = "eKey"    -> <<"A", "P", "I", " ", "k", "e", "y", " ", "n", "o", "t", " ", "v", "a", "l", "i", "d">>
      [] e = "eAuth"   -> <<"A", "u", "t", "h", "e", "n", "t", "i", "c", "a", "t", "i", "o", "n", " ", "f", "a", "i", "l", "e", "d">>
      [] e = "timeout" -> <<"R", "e", "q", "u", "e", "s", "t", " ", "t", "i", "m", "e", "d", " ", "o", "u", "t", " ", "a", "f", "t", "e", "r", " ", "3", "0", "0", "0", "0", "m", "s">>

\* faulty variant: forgets the 429 exception
isNonRetryableStatusNo429(status) == status >= 400 /\ status < 500

\* error.status >= 400 && error.status < 500 && error.status !== 429
isNonRetryableStatus(status) == status >= 400 /\ status < 500 /\ status # 429

isAuthMessage(message) ==
    LET msg == toLowerCase(message)
    IN  \/ includes(msg, <<"a", "p", "i", " ", "k", "e", "y">>)
        \/ includes(msg, <<"a", "u", "t", "h", "e", "n", "t", "i", "c", "a", "t", "i", "o", "n">>)
        \/ includes(msg, <<"u", "n", "a", "u", "t", "h", "o", "r", "i", "z", "e", "d">>)

nonRetryableOf ==
    [e \in ErrorIds |-> isNonRetryableStatus(ErrStatus(e)) \/ isAuthMessage(ErrMessage(e))]

isNonRetryableError(e) == nonRetryableOf[e]

RECURSIVE Pow2(_)
Pow2(n) == IF n = 0 THEN 1 ELSE 2 * Pow2(n - 1)

\* faulty variant: waits the base delay every time
backoffDelayFlat(attempt) == BaseDelay

\* baseDelay * Math.pow(2, attempt)
backoffDelay(attempt) == BaseDelay * Pow2(attempt)

\* the Bottleneck options of rateLimiters; reservoir -1: none configured
LimiterOptions(id) ==
    CASE id = "openai"      -> [maxConcurrent |-> 5,  reservoir |-> 60]
      [] id = "anthropic"   -> [maxConcurrent |-> 5,  reservoir |-> 60]
      [] id = "gemini"      -> [maxConcurrent |-> 10, reservoir |-> 1500]
      [] id = "deepseek"    -> [maxConcurrent |-> 5,  reservoir |-> 60]
      [] id = "groq"        -> [maxConcurrent |-> 10, reservoir |-> 100]
      [] id = "huggingface" -> [maxConcurrent |-> 2,  reservoir |-> 30]
      [] id = "ollama"      -> [maxConcurrent |-> 1,  reservoir |-> -1]

\* rateLimiters[provider] || rateLimiters.openai
getRateLimiter(provider) ==
    IF provider \in ProviderIds THEN LimiterOptions(provider) ELSE LimiterOptions("openai")

\* concurrent withRetry invocations of the provider
NumCallers == 2

Callers == 1..NumCallers

\* provider ids: the configured ones and one without a limiter of its own
RetryProviders == {"ollama", "huggingface", "mock"}

IdleCaller ==
    [phase |-> "idle", attempt |-> 0, history |-> <<>>, waits |-> <<>>, thrown |-> "none"]

Running == {c \in Callers : rCallers[c].phase = "running"}

\* jobs the limiter has started since the last refill of its reservoir
Admitted == getRateLimiter(rProvider).reservoir - rReservoir

\* generation calls of the provider that are in flight at the backend
InFlight == Cardinality(Running) + rOrphans

\* withRetry is called: the first job is handed to limiter.schedule
Invoke(c) ==
    /\ rCallers[c].phase = "idle"
    /\ rCallers' = [rCallers EXCEPT ![c].phase = "queued"]
    /\ rQueue' = Append(rQueue, c)
    /\ UNCHANGED <<rProvider, rReservoir, rOrphans>>
    /\ UNCHANGED <<consVars, dispVars, auditVars>>

\* the limiter starts the job at the head of its queue: fn() and the timeout timer start
Admit ==
    /\ rQueue # <<>>
    /\ Cardinality(Running) < getRateLimiter(rProvider).maxConcurrent
    /\ rReservoir = -1 \/ rReservoir > 0
    /\ rCallers' = [rCallers EXCEPT ![Head(rQueue)].phase = "running"]
    /\ rQueue' = Tail(rQueue)
    /\ rReservoir' = IF rReservoir = -1 THEN -1 ELSE rReservoir - 1
    /\ UNCHANGED <<rProvider, rOrphans>>
    /\ UNCHANGED <<consVars, dispVars, auditVars>>

\* the reservoir is refilled every reservoirRefreshInterval
Refresh ==
    /\ rReservoir # -1
    /\ rReservoir < getRateLimiter(rProvider).reservoir
    /\ rReservoir' = getRateLimiter(rProvider).reservoir
    /\ UNCHANGED <<rProvider, rCallers, rQueue, rOrphans>>
    /\ UNCHANGED <<consVars, dispVars, auditVars>>

\* the catch block of withRetry for attempt number rCallers[c].attempt
afterFailure(caller, e) ==
    LET failed == [caller EXCEPT !.history = Append(@, e)]
    IN  IF isNonRetryableError(e)
        THEN [failed EXCEPT !.phase = "threw", !.thrown = e]
        ELSE IF caller.attempt < MaxRetries - 1
        THEN [failed EXCEPT !.phase = "backoff",
                            !.waits = Append(@, backoffDelay(caller.attempt))]
        ELSE [failed EXCEPT !.phase = "threw", !.thrown = e,
                            !.attempt = caller.attempt + 1]

\* fn() resolves before the timeout: withRetry returns its value
FnSucceeds(c) ==
    /\ rCallers[c].phase = "running"
    /\ rCallers' = [rCallers EXCEPT ![c].phase = "returned",
                                    ![c].history = Append(@, "ok")]
    /\ UNCHANGED <<rProvider, rQueue, rReservoir, rOrphans>>
    /\ UNCHANGED <<consVars, dispVars, auditVars>>

\* fn() rejects before the timeout
FnFails(c) ==
    /\ rCallers[c].phase = "running"
    /\ \E e \in ErrorIds \ {"timeout"} :
          rCallers' = [rCallers EXCEPT ![c] = afterFailure(rCallers[c], e)]
    /\ UNCHANGED <<rProvider, rQueue, rReservoir, rOrphans>>
    /\ UNCHANGED <<consVars, dispVars, auditVars>>

\* the timeout promise rejects first: the job ends, fn() keeps running
TimesOut(c) ==
    /\ rCallers[c].phase = "running"
    /\ rCallers' = [rCallers EXCEPT ![c] = afterFailure(rCallers[c], "timeout")]
    /\ rOrphans' = rOrphans + 1
    /\ UNCHANGED <<rProvider, rQueue, rReservoir>>
    /\ UNCHANGED <<consVars, dispVars, auditVars>>

\* a fn() call abandoned by its race settles at last; nobody reads it
OrphanSettles ==
    /\ rOrphans > 0
    /\ rOrphans' = rOrphans - 1
    /\ UNCHANGED <<rProvider, rCallers, rQueue, rReservoir>>
    /\ UNCHANGED <<consVars, dispVars, auditVars>>

\* the backoff timer fires: next iteration of the loop, next job scheduled
BackoffElapsed(c) ==
    /\ rCallers[c].phase = "backoff"
    /\ rCallers' = [rCallers EXCEPT ![c].phase = "queued", ![c].attempt = @ + 1]
    /\ rQueue' = Append(rQueue, c)
    /\ UNCHANGED <<rProvider, rReservoir, rOrphans>>
    /\ UNCHANGED <<consVars, dispVars, auditVars>>

RetryInit ==
    /\ rProvider \in RetryProviders
    /\ rCallers = [c \in Callers |-> IdleCaller]
    /\ rQueue = <<>>
    /\ rReservoir = getRateLimiter(rProvider).reservoir
    /\ rOrphans = 0

RetryIdle ==
    /\ rProvider = "openai"
    /\ rCallers = <<>>
    /\ rQueue = <<>>
    /\ rReservoir = -1
    /\ rOrphans = 0

RetryNext ==
    \/ \E c \in Callers : Invoke(c)
    \/ Admit
    \/ Refresh
    \/ \E c \in Callers : FnSucceeds(c)
    \/ \E c \in Callers : FnFails(c)
    \/ \E c \in Callers : TimesOut(c)
    \/ OrphanSettles
    \/ \E c \in Callers : BackoffElapsed(c)

(***************************************************************************)
(* SpecConsensus: the engine applied to a frozen response set              *)
(***************************************************************************)
MaxResponses == 3

CModels == {"gemini-2.5-flash", "gpt-4o-mini", "claude-3.5-haiku"}

RECURSIVE SeqsUpTo(_, _)
SeqsUpTo(S, n) ==
    IF n = 0 THEN {<<>>}
    ELSE LET shorter == SeqsUpTo(S, n - 1)
         IN  shorter \cup {Append(s, x) : s \in {t \in shorter : Len(t) = n - 1}, x \in S}

\* the response texts of the general response sets
GeneralTexts == {"cats", "catsB", "stocks", "birds", "short", "boom"}

\* four backends answering with one rate each, in every order
NumericTexts == {"cats", "catsB", "rate17", "rate60"}

ProbeModels == <<"gemini-2.5-flash", "gpt-4o-mini", "claude-3.5-haiku", "deepseek-chat">>

NumericProbes ==
    {[i \in 1..4 |-> [model |-> ProbeModels[i], text |-> p[i]]] :
        p \in {q \in [1..4 -> NumericTexts] : \A i, j \in 1..4 : q[i] = q[j] => i = j}}

\* response texts with and without certainty and hedging words
ConfidenceTexts == {"sure", "hedge", "both", "cats"}

\* four backends, each answering with or without a negation
NegationTexts == {"birds", "cats"}

NegationProbes ==
    {[i \in 1..4 |-> [model |-> ProbeModels[i], text |-> p[i]]] :
        p \in [1..4 -> NegationTexts]}

\* five backends, so that a claim of two of them stays below the threshold of three
FiveModels == ProbeModels \o <<"gpt-4o">>

MinorityTexts == {"cats", "stocks", "birds"}

MinorityProbes ==
    {[i \in 1..5 |-> [model |-> FiveModels[i], text |-> p[i]]] :
        p \in [1..5 -> MinorityTexts]}

\* three backends, one of them answering with seven numbers
PooledTexts == {"ones", "one", "five"}

PooledProbes ==
    {[i \in 1..3 |-> [model |-> ProbeModels[i], text |-> p[i]]] :
        p \in [1..3 -> PooledTexts]}

NoOutliers == [pending |-> TRUE]

ConsIdle ==
    /\ cResponses = <<>>
    /\ cPc = "idle"
    /\ cConsensus = NoConsensus
    /\ cVariance = NoVariance
    /\ cInsights = <<>>
    /\ cOutliers = NoOutliers

ConsInit ==
    /\ cResponses \in SeqsUpTo([model : CModels, text : GeneralTexts], MaxResponses)
                          \cup SeqsUpTo([model : CModels, text : ConfidenceTexts],
                                        MaxResponses)
                          \cup NumericProbes
                          \cup NegationProbes
                          \cup MinorityProbes
                          \cup PooledProbes
    /\ cPc = "start"
    /\ cConsensus = NoConsensus
    /\ cVariance = NoVariance
    /\ cInsights = <<>>
    /\ cOutliers = NoOutliers

CalculateConsensus ==
    /\ cPc = "start"
    /\ IF calculateConsensusThrows(cResponses)
       THEN cPc' = "threw" /\ UNCHANGED cConsensus
       ELSE cPc' = "consensus" /\ cConsensus' = calculateConsensus(cResponses)
    /\ UNCHANGED <<cResponses, cVariance, cInsights, cOutliers>>
    /\ UNCHANGED <<dispVars, retryVars, auditVars>>

AnalyzeVariance ==
    /\ cPc = "consensus"
    /\ cVariance' = analyzeVariance(cResponses, cConsensus)
    /\ cPc' = "done"
    /\ UNCHANGED <<cResponses, cConsensus, cInsights, cOutliers>>
    /\ UNCHANGED <<dispVars, retryVars, auditVars>>

DeriveInsights ==
    /\ cPc = "done"
    /\ cInsights' = deriveInsights(cResponses, cConsensus, cVariance)
    /\ cPc' = "derived"
    /\ UNCHANGED <<cResponses, cConsensus, cVariance, cOutliers>>
    /\ UNCHANGED <<dispVars, retryVars, auditVars>>

\* OutlierIsolator.analyze on the same response set
IsolateOutliers ==
    /\ cPc # "idle"
    /\ cOutliers = NoOutliers
    /\ cOutliers' = [pending   |-> FALSE,
                     numerical |-> detectNumericalOutliers(cResponses),
                     semantic  |-> detectSemanticOutliers(cResponses),
                     report    |-> analyze(cResponses)]
    /\ UNCHANGED <<cResponses, cPc, cConsensus, cVariance, cInsights>>
    /\ UNCHANGED <<dispVars, retryVars, auditVars>>

ConsNext == CalculateConsensus \/ AnalyzeVariance \/ DeriveInsights \/ IsolateOutliers

(***************************************************************************)
(* StorageEngine: the audit cache                                          *)
(***************************************************************************)
Hashes == {"abc123hash", "expired_hash"}

Verdicts == {"verified", "debunked"}

Urls == {"http://example.com", "url"}

TtlDays == {-1, 1, 2}

\* 24 * 60 * 60 * 1000
DayMs == 86400000

MaxSaves == 2

MaxClock == (MaxSaves + 1) * DayMs

NoRow == [present |-> FALSE]

Null == [found |-> FALSE]

NoReply == [pending |-> TRUE]

\* faulty variant: a row is still served at the instant it expires
checkAuditCacheAtExpiry(rows, hash, now) ==
    IF rows[hash].present /\ rows[hash].expires_at >= now
    THEN [found |-> TRUE, verdict |-> rows[hash].verdict,
          citation_url |-> rows[hash].citation_url]
    ELSE Null

\* SELECT ... WHERE claim_hash = ?; the row is served while expires_at > Date.now()
checkAuditCache(rows, hash, now) ==
    IF rows[hash].present /\ rows[hash].expires_at > now
    THEN [found |-> TRUE, verdict |-> rows[hash].verdict,
          citation_url |-> rows[hash].citation_url]
    ELSE Null

\* INSERT OR REPLACE on the primary key claim_hash
saveAuditResult(rows, hash, verdict, url, ttlDays, now) ==
    [rows EXCEPT ![hash] = [present |-> TRUE, verdict |-> verdict, citation_url |-> url,
                            timestamp |-> now, expires_at |-> now + ttlDays * DayMs]]

SaveAuditResult(hash, verdict, url, ttlDays) ==
    /\ clock >= 0
    /\ Len(auditSaves) < MaxSaves
    /\ auditRows' = saveAuditResult(auditRows, hash, verdict, url, ttlDays, clock)
    /\ auditSaves' = Append(auditSaves, [hash |-> hash, verdict |-> verdict, url |-> url,
                                         ttlDays |-> ttlDays, at |-> clock])
    /\ UNCHANGED <<clock, auditReply>>
    /\ UNCHANGED <<consVars, dispVars, retryVars>>

CheckAuditCache(hash) ==
    /\ clock >= 0
    /\ auditReply' = [pending |-> FALSE, hash |-> hash, at |-> clock,
                      reply |-> checkAuditCache(auditRows, hash, clock)]
    /\ UNCHANGED <<auditRows, clock, auditSaves>>
    /\ UNCHANGED <<consVars, dispVars, retryVars>>

\* time passes between two calls
ClockAdvances ==
    /\ clock >= 0
    /\ clock < MaxClock
    /\ clock' = clock + DayMs
    /\ UNCHANGED <<auditRows, auditSaves, auditReply>>
    /\ UNCHANGED <<consVars, dispVars, retryVars>>

AuditInit ==
    /\ auditRows = [h \in Hashes |-> NoRow]
    /\ clock = 0
    /\ auditSaves = <<>>
    /\ auditReply = NoReply

AuditIdle ==
    /\ auditRows = [h \in Hashes |-> NoRow]
    /\ clock = -1
    /\ auditSaves = <<>>
    /\ auditReply = NoReply

AuditNext ==
    \/ \E hash \in Hashes, verdict \in Verdicts, url \in Urls, ttlDays \in TtlDays :
          SaveAuditResult(hash, verdict, url, ttlDays)
    \/ \E hash \in Hashes : CheckAuditCache(hash)
    \/ ClockAdvances

vars == <<consVars, dispVars, retryVars, auditVars>>

ConsensusInit == ConsInit /\ DispIdle /\ RetryIdle /\ AuditIdle

DispatchInit == DispInit /\ ConsIdle /\ RetryIdle /\ AuditIdle

WithRetryInit == RetryInit /\ ConsIdle /\ DispIdle /\ AuditIdle

AuditCacheInit == AuditInit /\ ConsIdle /\ DispIdle /\ RetryIdle

SpecConsensus == ConsensusInit /\ [][ConsNext]_vars

SpecDispatch == DispatchInit /\ [][DispNext]_vars

SpecRetry == WithRetryInit /\ [][RetryNext]_vars

SpecAudit == AuditCacheInit /\ [][AuditNext]_vars

(***************************************************************************)
(* C2                                                                      *)
(***************************************************************************)
ConsensusTexts == {cConsensus.items[i].value : i \in 1..Len(cConsensus.items)}
UniqueTexts == {cVariance.unique[i].text : i \in 1..Len(cVariance.unique)}
DisagreementTexts ==
    {cVariance.disagreements[i].text : i \in 1..Len(cVariance.disagreements)}
ExtractedTexts ==
    LET claims == extractClaims(cResponses) IN {claims[i].text : i \in 1..Len(claims)}

\* C2: for every response set with N >= 1, unique, disagreements and consensus
\* items partition the distinct extracted claims: none lost, none in two sets.
C2_Partition ==
    (cPc = "done" /\ Len(cResponses) >= 1) =>
        /\ ConsensusTexts \cup UniqueTexts \cup DisagreementTexts = ExtractedTexts
        /\ ConsensusTexts \cap UniqueTexts = {}
        /\ ConsensusTexts \cap DisagreementTexts = {}
        /\ UniqueTexts \cap DisagreementTexts = {}

(***************************************************************************)
(* Claims about dispatch (SpecDispatch)                                    *)
(***************************************************************************)
\* investigate ended before getWorkflow: rejected topic, or semantic cache hit
DispatchSkipped == outcome.error = "validation" \/ outcome.status = "cached"

Pass1Over == pc \in {"pass2", "analyze", "store", "done"} /\ ~DispatchSkipped

Pass1Calls == SelectSeq(calls, LAMBDA c : c.pass = 1)

Pass2Calls == SelectSeq(calls, LAMBDA c : c.pass = 2)

Roster == workflow.models

RosterRegistered ==
    \A i \in 1..Len(Roster) : getProviderForModel(registered, Roster[i]) # "none"

SomeSlotOk == \E i \in 1..Len(slots) : slots[i].st = "ok"

SomeSlotFailed == \E i \in 1..Len(slots) : slots[i].st = "failed"

\* the Pass-1 responses read off the slots: backend and text of each call that succeeded
OkSlots == SelectSeq([i \in 1..Len(slots) |-> i], LAMBDA i : slots[i].st = "ok")

Pass1Attribution == [k \in 1..Len(OkSlots) |-> <<Roster[OkSlots[k]], slots[OkSlots[k]].text>>]

Pass1Responses ==
    [k \in 1..Len(OkSlots) |-> [model |-> Roster[OkSlots[k]], text |-> slots[OkSlots[k]].text]]

\* C1: once Pass 1 is over, the Pass-1 calls are one per roster backend, in roster
\* order: the whole roster in a single-pass workflow, the roster without its last
\* entry (the synthesizer) in a two-pass workflow.
C1_Pass1CallsRoster ==
    (Pass1Over /\ RosterRegistered) =>
        [i \in 1..Len(Pass1Calls) |-> Pass1Calls[i].model]
            = (IF workflow.passes = 1 THEN Roster ELSE SubSeq(Roster, 1, Len(Roster) - 1))

\* C3: when no backend call succeeded, dispatch returns the empty list and investigate
\* rejects; a result is never built from zero responses.
C3_TotalFailureRejects ==
    (pc = "done" /\ ~DispatchSkipped) =>
        /\ (~SomeSlotOk /\ synth.st # "ok") =>
              (results = <<>> /\ outcome.status = "rejected")
        /\ outcome.status = "result" =>
              (Len(results) >= 1 /\ outcome.totalQueries >= 1
               /\ Len(outcome.consensusInput) >= 1)

C3_Witness ==
    /\ pc = "done"
    /\ Len(calls) >= 2
    /\ \A i \in 1..Len(slots) : slots[i].st = "failed"
    /\ results = <<>>
    /\ outcome.status = "rejected"
    /\ outcome.error = "consensus"

\* C4: when some backend calls failed and at least one backend contributed a response,
\* investigate returns a result whose modelsUsed lists exactly the contributors.
C4_PartialFailureTolerated ==
    (pc = "done" /\ SomeSlotFailed /\ Len(results) >= 1) =>
        /\ outcome.status = "result"
        /\ outcome.modelsUsed = [i \in 1..Len(results) |-> results[i].model]

\* a registered backend that serves no model of the roster
SubstituteAvailable ==
    \E p \in registered : \A i \in 1..Len(Roster) : providerIdForModel(Roster[i]) # p

\* C5: once Pass 1 is over, every slot whose call failed while a substitute backend was
\* available has had a second call, made to a model outside the roster.
C5_OneSubstitution ==
    Pass1Over =>
        \A i \in 1..Len(slots) :
            (slots[i].st = "failed" /\ SubstituteAvailable) =>
                \E k \in 1..Len(calls) :
                    /\ calls[k].pass = 1
                    /\ calls[k].slot = i
                    /\ ~InSeq(calls[k].model, Roster)

\* C6: whenever dispatch returned at least one response, the consensus calculation is
\* invoked, on at least one response, and on the full raw set when every response was
\* flagged as an outlier.
C6_ConsensusInvokedNonEmpty ==
    (pc = "done" /\ Len(results) >= 1) =>
        /\ outcome.consensusInvoked
        /\ Len(outcome.consensusInput) >= 1
        /\ outcome.allFlagged => outcome.consensusInput = results

\* C7 as stated: in a two-pass workflow Pass 2 is exactly one synthesis call.
C7_AlwaysOneSynthesis ==
    (Pass1Over /\ workflow.passes = 2) => Len(Pass2Calls) = 1

\* C7, amended: in a two-pass workflow whose Pass 1 produced at least one response,
\* Pass 2 is exactly one synthesis call, made to the roster's last entry after every
\* Pass-1 call has settled, its prompt holds every Pass-1 text with its backend, and
\* its response comes last in the response set; with no Pass-1 response there is no
\* synthesis call.
C7_SynthesisAfterBarrier ==
    /\ Len(Pass2Calls) <= 1
    /\ \A k \in 1..Len(calls) :
          calls[k].pass = 2 =>
              /\ workflow.passes = 2
              /\ k = Len(calls)
              /\ calls[k].model = Roster[Len(Roster)]
              /\ \A i \in 1..Len(slots) : slots[i].st \in {"ok", "failed", "skipped"}
              /\ calls[k].prompt = Pass1Attribution
    /\ (Pass1Over /\ workflow.passes = 2) => (Len(Pass2Calls) = 1 <=> SomeSlotOk)
    /\ (Pass1Over /\ workflow.passes # 2) => Pass2Calls = <<>>
    /\ synth.st = "ok" =>
          results = Append(Pass1Responses, [model |-> Roster[Len(Roster)], text |-> synth.text])

C7_Witness ==
    /\ pc = "done"
    /\ workflow.passes = 2
    /\ synth.st = "ok"
    /\ SomeSlotFailed
    /\ Len(OkSlots) >= 2
    /\ Len(results) = Len(OkSlots) + 1

InFlightSlots == {i \in 1..Len(slots) : slots[i].st = "inflight"}

\* in every state of a sequential dispatch: one call in flight at most, the slots are
\* taken in order, and none is in flight during the inter-call delay
SequentialOrder ==
    sequentialMode(depth) =>
        /\ Cardinality(InFlightSlots) <= 1
        /\ \A i \in 1..Len(slots) : \A j \in 1..(i - 1) :
              slots[i].st # "pending" => Settled(slots[j])
        /\ pc = "delay" => InFlightSlots = {}
        /\ Pass1Over =>
              /\ \A i \in 1..Len(slots) : Settled(slots[i])
              /\ [k \in 1..Len(Pass1Calls) |-> Pass1Calls[k].slot]
                    = [k \in 1..Len(slots) |-> k]

\* a step of a sequential dispatch that issues a Pass-1 call issues one, from the start
\* of the workflow or from the end of the inter-call delay, with no call in flight
SequentialIssue ==
    (sequentialMode(depth) /\ Len(Pass1Calls') > Len(Pass1Calls)) =>
        /\ Len(Pass1Calls') = Len(Pass1Calls) + 1
        /\ InFlightSlots = {}
        /\ (Len(Pass1Calls) = 0 /\ pc = "ready") \/ (Len(Pass1Calls) > 0 /\ pc = "delay")

\* C11: in sequential mode at most one Pass-1 call is in flight; call i+1 is issued only
\* after call i settled and the inter-call delay elapsed; a failed call does not keep
\* the remaining calls from being issued (when Pass 1 is over every slot had its call).
C11_SequentialDispatch == []SequentialOrder /\ [][SequentialIssue]_vars

C11_Witness ==
    /\ sequentialMode(depth)
    /\ pc = "done"
    /\ Len(slots) = 3
    /\ slots[1].st = "failed"
    /\ slots[2].st = "ok"
    /\ slots[3].st = "ok"
    /\ Len(Pass1Calls) = 3

WorkflowSelected ==
    pc \in {"pass1", "delay", "pass2", "analyze", "store", "done"} /\ ~DispatchSkipped

\* the backends the preset of the run names, before the filter
PresetModels == presetOf(depth, registered, primaryModel, maxCost).models

NoPresetBackendAvailable ==
    \A k \in 1..Len(PresetModels) : providerIdForModel(PresetModels[k]) \notin registered

\* C12: for every preset and every set of registered backends the selected workflow has
\* a non-empty roster and at least one pass; when no backend of the preset is available
\* the roster is the primary model alone, with one pass.
C12_RosterNeverEmpty ==
    WorkflowSelected =>
        /\ Len(workflow.models) >= 1
        /\ workflow.passes \in {1, 2}
        /\ NoPresetBackendAvailable =>
              /\ workflow.models = <<primaryModel>>
              /\ workflow.passes = 1

C12_Witness ==
    /\ WorkflowSelected
    /\ depth = "deep-dive"
    /\ registered = {"groq"}
    /\ NoPresetBackendAvailable
    /\ workflow.models = <<primaryModel>>
    /\ workflow.passes = 1

\* the four role picks of the y-it preset of the run, and the candidates of each role
YItPicks == yItModels(registered, primaryModel, maxCost)

YItCandidates == <<CandidatesInvA, CandidatesInvB, CandidatesGap, CandidatesSyn>>

ProjectedCost(m) == estimateCost(m, AssumedInputTokens, AssumedOutputTokens)

\* the projected cost of the roles picked before role k
CostBefore(k) == SumSeq([j \in 1..(k - 1) |-> ProjectedCost(YItPicks[j])])

AvailableCandidates(k) ==
    {m \in Range(YItCandidates[k]) : providerIdForModel(m) \in registered}

NothingFits(k) ==
    /\ AvailableCandidates(k) # {}
    /\ \A m \in AvailableCandidates(k) :
          CostBefore(k) + ProjectedCost(m)
             > (IF maxCost = 0 THEN DefaultBudget ELSE maxCost)

\* C13: under a cost ceiling, when no candidate of a role fits the remaining budget, the
\* candidate picked for the role is an available one of the lowest projected cost.
C13_CheapestWhenNothingFits ==
    (WorkflowSelected /\ depth = "y-it") =>
        \A k \in 1..4 :
            NothingFits(k) =>
                /\ YItPicks[k] \in AvailableCandidates(k)
                /\ \A m \in AvailableCandidates(k) :
                      ProjectedCost(YItPicks[k]) <= ProjectedCost(m)

\* C20: investigate does not wait for the storage collaborator: while the write of a
\* handed-over result is under way the caller already has the result, and a write
\* that fails does not cost the caller the result.
C20_NeverBlocksOnStorage ==
    /\ storage = "writing" => pc = "done"
    /\ storage = "failed" => outcome.status = "result"

(***************************************************************************)
(* Claims about withRetry and the rate limiter (SpecRetry)                 *)
(***************************************************************************)
\* C8: the provider's calls in flight never exceed its limiter's maxConcurrent, and
\* the jobs admitted since the last refill never exceed its reservoir.
C8_AdmissionBounds ==
    /\ InFlight <= getRateLimiter(rProvider).maxConcurrent
    /\ rReservoir # -1 => (rReservoir >= 0 /\ Admitted <= getRateLimiter(rProvider).reservoir)

\* C9: withRetry makes at most MaxRetries attempts; the wait after the k-th failed
\* retryable attempt (k from 0) that leaves attempts is BaseDelay * 2^k; the first
\* success ends the call and is returned; the error thrown is that of the last attempt,
\* and a retryable error is thrown only after the last attempt.
C9_BoundedBackoff ==
    \A c \in Callers :
        LET r == rCallers[c]
            h == r.history
            retried == {k \in 1..Len(h) :
                          h[k] # "ok" /\ ~isNonRetryableError(h[k]) /\ k < MaxRetries}
        IN  /\ Len(h) <= MaxRetries
            /\ Len(r.waits) = Cardinality(retried)
            /\ \A k \in 1..Len(r.waits) : r.waits[k] = BaseDelay * 2^(k - 1)
            /\ \A k \in 1..Len(h) : h[k] = "ok" => (k = Len(h) /\ r.phase = "returned")
            /\ r.phase = "returned" => (h # <<>> /\ h[Len(h)] = "ok")
            /\ r.phase = "threw" =>
                  /\ h # <<>>
                  /\ h[Len(h)] # "ok"
                  /\ r.thrown = h[Len(h)]
                  /\ ~isNonRetryableError(r.thrown) => Len(h) = MaxRetries

C9_Witness ==
    \E c \in Callers :
        /\ rCallers[c].phase = "threw"
        /\ Len(rCallers[c].history) = 3
        /\ rCallers[c].waits = <<1000, 2000>>
        /\ rCallers[c].thrown = rCallers[c].history[3]
        /\ \E d \in Callers :
              /\ rCallers[d].phase = "returned"
              /\ Len(rCallers[d].history) = 2

\* the errors whose message names an API key, authentication or being unauthorized
AuthWorded == {"e401", "eKey", "eAuth", "e429key"}

Status4xxNot429(e) == ErrStatus(e) >= 400 /\ ErrStatus(e) <= 499 /\ ErrStatus(e) # 429

\* attempt k of the caller ended with error h[k]: it was the last attempt, thrown at
\* once, with no wait after it
NotRetried(r, k) ==
    /\ k = Len(r.history)
    /\ r.phase = "threw"
    /\ r.thrown = r.history[k]
    /\ Len(r.waits) = k - 1

\* attempt k of the caller ended with an error that was followed by a backoff wait
Retried(r, k) ==
    /\ Len(r.waits) >= k
    /\ ~(r.phase = "threw" /\ Len(r.history) = k)

ConsensusDone == cPc \in {"consensus", "done", "derived"}

\* the claims the responses make, and the distinct backends asserting each
AssertedClaims ==
    UNION {Range(claimKeysOf[cResponses[i].text]) : i \in 1..Len(cResponses)}

Asserters(claim) ==
    {cResponses[i].model : i \in {j \in 1..Len(cResponses) :
                                     claim \in Range(claimKeysOf[cResponses[j].text])}}

\* C14: for N >= 1 responses a claim is a consensus item iff at least ceil(N/2) distinct
\* backends assert it; the item's count is that number, its confidence count/N, and so
\* 1 <= count <= N and 0 < confidence <= 1.
C14_MajorityThreshold ==
    ConsensusDone =>
        LET N == Len(cResponses)
        IN  /\ N >= 1
            /\ \A claim \in AssertedClaims :
                  claim \in ConsensusTexts <=> 2 * Cardinality(Asserters(claim)) >= N
            /\ \A i \in 1..Len(cConsensus.items) :
                  LET item == cConsensus.items[i]
                  IN  /\ item.value \in AssertedClaims
                      /\ item.agreementCount = Cardinality(Asserters(item.value))
                      /\ item.confidence = <<item.agreementCount, N>>
                      /\ item.agreementCount >= 1
                      /\ item.agreementCount <= N
                      /\ \A j \in 1..Len(cConsensus.items) :
                            cConsensus.items[j].value = item.value => j = i

C14_Witness ==
    /\ ConsensusDone
    /\ Len(cResponses) = 3
    /\ \E i \in 1..Len(cConsensus.items) : cConsensus.items[i].agreementCount = 2
    /\ \E claim \in AssertedClaims : Cardinality(Asserters(claim)) = 1
    /\ \E claim \in AssertedClaims : claim \notin ConsensusTexts

AllAnalysed == cPc = "done" /\ ~cOutliers.pending

\* the response array in another order
Orders == {p \in [1..Len(cResponses) -> 1..Len(cResponses)] :
              \A i, j \in 1..Len(cResponses) : p[i] = p[j] => i = j}

Reordered(p) == [i \in 1..Len(cResponses) |-> cResponses[p[i]]]

\* the results as collections, without the position of an entry in its list
ItemsOf(consensus) ==
    {[value |-> consensus.items[i].value,
      count |-> consensus.items[i].agreementCount,
      confidence |-> consensus.items[i].confidence,
      models |-> Range(consensus.items[i].models)] : i \in 1..Len(consensus.items)}

UniqueOf(variance) ==
    {[text |-> variance.unique[i].text, model |-> variance.unique[i].model] :
        i \in 1..Len(variance.unique)}

DisagreementsOf(variance) ==
    {[text |-> variance.disagreements[i].text,
      models |-> Range(variance.disagreements[i].models),
      count |-> variance.disagreements[i].count] : i \in 1..Len(variance.disagreements)}

ContradictionPairsOf(variance) ==
    {{<<variance.contradictions[i].model1, variance.contradictions[i].text1>>,
      <<variance.contradictions[i].model2, variance.contradictions[i].text2>>} :
        i \in 1..Len(variance.contradictions)}

FlaggedOf(report) == {report.outliers[i].model : i \in 1..Len(report.outliers)}

SameResults(consensus, variance, report) ==
    /\ ItemsOf(consensus) = ItemsOf(cConsensus)
    /\ consensus.threshold = cConsensus.threshold
    /\ UniqueOf(variance) = UniqueOf(cVariance)
    /\ DisagreementsOf(variance) = DisagreementsOf(cVariance)
    /\ ContradictionPairsOf(variance) = ContradictionPairsOf(cVariance)
    /\ Len(variance.contradictions) = Len(cVariance.contradictions)
    /\ variance.level = cVariance.level
    /\ report.threw = cOutliers.report.threw
    /\ FlaggedOf(report) = FlaggedOf(cOutliers.report)
    /\ Range(report.validResponses) = Range(cOutliers.report.validResponses)

\* C15: for every permutation of the response array the consensus items, the unique
\* claims, the disagreements, the contradiction pairs, the severity level and the set
\* of flagged backends are those of the original order (each taken as a collection;
\* a contradiction pair as an unordered pair).
C15_OrderIndependent ==
    AllAnalysed =>
        \A p \in Orders :
            SameResults(calculateConsensus(Reordered(p)),
                        analyzeVariance(Reordered(p), calculateConsensus(Reordered(p))),
                        analyze(Reordered(p)))

C15_Witness ==
    /\ AllAnalysed
    /\ Len(cResponses) = 3
    /\ cResponses[1].text # cResponses[3].text
    /\ cResponses[1].model # cResponses[3].model
    /\ Len(cConsensus.items) >= 1
    /\ Len(cVariance.unique) >= 1
    /\ Len(cVariance.contradictions) >= 1
    /\ FlaggedOf(cOutliers.report) # {}
    /\ Len(cOutliers.report.validResponses) >= 1

\* the response set holds four responses whose only numbers are 15, 18, 17 and 60
FourRates ==
    /\ Len(cResponses) = 4
    /\ {cResponses[i].text : i \in 1..4} = NumericTexts
    /\ \A i \in 1..4 : Len(numbersOf[cResponses[i].text]) = 1
    /\ {numbersOf[cResponses[i].text][1] : i \in 1..4} = {150, 180, 170, 600}

\* C16: of four responses whose only numbers are 15, 18, 17 and 60 the numerical pass
\* flags the response with 60 and no other.
C16_FlagsSixty ==
    (FourRates /\ ~cOutliers.pending) =>
        Range(cOutliers.numerical)
            = {cResponses[i].model : i \in {j \in 1..4 : cResponses[j].text = "rate60"}}

\* exactly two responses, from two backends, with disjoint vocabularies and no numbers
TwoDisjoint ==
    /\ Len(cResponses) = 2
    /\ cResponses[1].model # cResponses[2].model
    /\ longWordsOf[cResponses[1].text] \cap longWordsOf[cResponses[2].text] = {}
    /\ longWordsOf[cResponses[1].text] \cup longWordsOf[cResponses[2].text] # {}
    /\ \A i \in 1..2 : numbersOf[cResponses[i].text] = <<>>

\* C17 as stated: of two responses with disjoint vocabularies and no numbers exactly
\* one is flagged as a lexical outlier.
C17_ExactlyOneFlagged ==
    (TwoDisjoint /\ ~cOutliers.pending) => Len(cOutliers.report.outliers) = 1

\* C17: of two responses with disjoint vocabularies and no numbers both are flagged as
\* lexical outliers and the valid set is empty; each is classified against the empty
\* valid set: outdated when it has temporal language, misunderstood-query otherwise
\* (its overlap with an empty vocabulary is 0), never valuable-dissent.
C17_BothFlagged ==
    (TwoDisjoint /\ ~cOutliers.pending) =>
        /\ cOutliers.numerical = <<>>
        /\ cOutliers.semantic = <<cResponses[1].model, cResponses[2].model>>
        /\ ~cOutliers.report.threw
        /\ cOutliers.report.validResponses = <<>>
        /\ Len(cOutliers.report.outliers) = 2
        /\ \A i \in 1..2 :
              /\ cOutliers.report.outliers[i].model = cResponses[i].model
              /\ cOutliers.report.outliers[i].classification.type
                    = (IF temporalOf[cResponses[i].text]
                       THEN "outdated" ELSE "misunderstood-query")

C17_Witness ==
    /\ TwoDisjoint
    /\ ~cOutliers.pending
    /\ Len(cOutliers.report.outliers) = 2
    /\ cOutliers.report.outliers[1].classification.type = "misunderstood-query"

\* the responses the report left unflagged, and their numbers and vocabulary
ValidSet == SelectSeq(cResponses, LAMBDA r : r.model \notin FlaggedOf(cOutliers.report))

ValidNumbers == FlatSeq([i \in 1..Len(ValidSet) |-> numbersOf[ValidSet[i].text]])

ValidWords == UNION {allWordsOf[ValidSet[i].text] : i \in 1..Len(ValidSet)}

\* average of the response's numbers at least 10 times, or at most a tenth of, the
\* average of the valid set's numbers
TenfoldOff(text) ==
    LET own == numbersOf[text]
    IN  /\ Len(own) > 0
        /\ Len(ValidNumbers) > 0
        /\ \/ SumSeq(own) * Len(ValidNumbers) >= 10 * SumSeq(ValidNumbers) * Len(own)
           \/ 10 * SumSeq(own) * Len(ValidNumbers) <= SumSeq(ValidNumbers) * Len(own)

RuleOrderType(text) ==
    IF TenfoldOff(text) THEN "hallucination"
    ELSE IF temporalOf[text] THEN "outdated"
    ELSE IF 5 * jaccardSimilarity(ValidWords, allWordsOf[text])[1]
               < jaccardSimilarity(ValidWords, allWordsOf[text])[2]
    THEN "misunderstood-query"
    ELSE "valuable-dissent"

\* C18: every flagged response is classified by the first rule that matches, in the
\* order hallucination (tenfold numeric deviation), outdated (temporal language),
\* misunderstood-query (overlap below 0.2), valuable-dissent.
C18_FirstMatchingRule ==
    ~cOutliers.pending =>
        /\ ~cOutliers.report.threw
        /\ \A i \in 1..Len(cOutliers.report.outliers) :
              cOutliers.report.outliers[i].classification.type
                 = RuleOrderType(cOutliers.report.outliers[i].response)

StrongCount == Cardinality({i \in 1..Len(cResponses) : strongOf[cResponses[i].text]})

HedgingCount == Cardinality({i \in 1..Len(cResponses) : conditionalOf[cResponses[i].text]})

OverconfidenceFired == InSeq("overconfidence-flag", cInsights)

\* C19: the overconfidence derivative fires iff exactly one response uses strong-
\* certainty language while more than half of the responses use hedging language.
C19_OverconfidenceIff ==
    cPc = "derived" =>
        (OverconfidenceFired <=> (StrongCount = 1 /\ 2 * HedgingCount > Len(cResponses)))

VarianceDone == cPc \in {"done", "derived"}

\* claims asserted by more than one backend and by fewer than ceil(N/2)
MinorityClaims ==
    {claim \in AssertedClaims :
        /\ Cardinality(Asserters(claim)) > 1
        /\ 2 * Cardinality(Asserters(claim)) < Len(cResponses)}

\* pairs of responses of which exactly one contains 'not'
NegationPairs ==
    {pr \in (1..Len(cResponses)) \X (1..Len(cResponses)) :
        /\ pr[1] < pr[2]
        /\ hasNotOf[cResponses[pr[1]].text] # hasNotOf[cResponses[pr[2]].text]}

\* C23: the variance score is the number of disagreement entries (claims with
\* 1 < backend count < threshold) plus the number of contradiction pairs; the level is
\* low for 0, medium for 1 or 2, high above 2.
C23_SeverityScore ==
    VarianceDone =>
        /\ Len(cVariance.disagreements) = Cardinality(MinorityClaims)
        /\ Len(cVariance.contradictions) = Cardinality(NegationPairs)
        /\ cVariance.score = Cardinality(MinorityClaims) + Cardinality(NegationPairs)
        /\ cVariance.score = 0 => cVariance.level = "low"
        /\ cVariance.score \in {1, 2} => cVariance.level = "medium"
        /\ cVariance.score > 2 => cVariance.level = "high"

C23_Witness ==
    /\ VarianceDone
    /\ Len(cVariance.disagreements) >= 1
    /\ Len(cVariance.contradictions) = 4
    /\ cVariance.score >= 5
    /\ cVariance.level = "high"

\* the numeric tokens below 100 of response i, and the responses that have any
SmallNumbers(i) == SelectSeq(numbersOf[cResponses[i].text], LAMBDA v : v < PercentLimit)

Qualifying == {i \in 1..Len(cResponses) : Len(SmallNumbers(i)) > 0}

RECURSIVE SumOver(_, _)
SumOver(f, S) ==
    IF S = {} THEN 0 ELSE LET x == CHOOSE y \in S : TRUE IN f[x] + SumOver(f, S \ {x})

RECURSIVE ProductOver(_, _)
ProductOver(f, S) ==
    IF S = {} THEN 1 ELSE LET x == CHOOSE y \in S : TRUE IN f[x] * ProductOver(f, S \ {x})

NumericallyFlagged == {i \in Qualifying : InSeq(cResponses[i].model, cOutliers.numerical)}

\* |mean_i - mean| / stddev > 2.5 with mean and stddev taken over all the qualifying
\* tokens of all responses pooled
PooledCount == SumOver([i \in Qualifying |-> Len(SmallNumbers(i))], Qualifying)

PooledSum == SumOver([i \in Qualifying |-> SumSeq(SmallNumbers(i))], Qualifying)

PooledSquares ==
    SumOver([i \in Qualifying |->
                SumSeq([k \in 1..Len(SmallNumbers(i)) |->
                           SmallNumbers(i)[k] * SmallNumbers(i)[k]])], Qualifying)

PooledDeviates(i) ==
    LET d == SumSeq(SmallNumbers(i)) * PooledCount - PooledSum * Len(SmallNumbers(i))
    IN  4 * d * d > 25 * Len(SmallNumbers(i)) * Len(SmallNumbers(i))
                       * (PooledCount * PooledSquares - PooledSum * PooledSum)

\* the same with mean and stddev taken over the per-response means; the means are
\* scaled by the product of the token counts to stay integers
MeanScale == ProductOver([i \in Qualifying |-> Len(SmallNumbers(i))], Qualifying)

ScaledMean(i) == (SumSeq(SmallNumbers(i)) * MeanScale) \div Len(SmallNumbers(i))

MeansDeviate(i) ==
    LET n == Cardinality(Qualifying)
        S == SumOver([j \in Qualifying |-> ScaledMean(j)], Qualifying)
        Q == SumOver([j \in Qualifying |-> ScaledMean(j) * ScaledMean(j)], Qualifying)
        d == ScaledMean(i) * n - S
    IN  4 * d * d > 25 * (n * Q - S * S)

SameModelTwice == \E i, j \in 1..Len(cResponses) : i # j /\ cResponses[i].model = cResponses[j].model

\* C24 as stated: with at least 3 qualifying responses a response is flagged iff its
\* mean deviates by more than 2.5 standard deviations from the mean of the per-response
\* means; with fewer than 3 none is flagged.
C24_PerResponseMeans ==
    (~cOutliers.pending /\ ~SameModelTwice) =>
        IF Cardinality(Qualifying) >= 3
        THEN NumericallyFlagged = {i \in Qualifying : MeansDeviate(i)}
        ELSE cOutliers.numerical = <<>>

\* C24: with at least 3 qualifying responses a response is flagged iff its mean deviates
\* by more than 2.5 standard deviations from the mean of all qualifying tokens pooled
\* over the responses (population standard deviation of the pooled tokens); with fewer
\* than 3 qualifying responses none is flagged.
C24_PooledTokens ==
    (~cOutliers.pending /\ ~SameModelTwice) =>
        IF Cardinality(Qualifying) >= 3
        THEN /\ NumericallyFlagged = {i \in Qualifying : PooledDeviates(i)}
             /\ Range(cOutliers.numerical) = {cResponses[i].model : i \in NumericallyFlagged}
        ELSE cOutliers.numerical = <<>>

C24_Witness ==
    /\ ~cOutliers.pending
    /\ Len(cResponses) = 3
    /\ Cardinality(Qualifying) = 3
    /\ cOutliers.numerical = <<cResponses[3].model>>
    /\ cResponses[3].text = "five"
    /\ PooledDeviates(3)
    /\ ~MeansDeviate(3)

OutlierTypes == {"hallucination", "outdated", "misunderstood-query", "valuable-dissent"}

ReportedValid == Range(cOutliers.report.validResponses)

ReportedOutliers == {cOutliers.report.outliers[i].model : i \in 1..Len(cOutliers.report.outliers)}

\* C27: analyze returns a report for every response list (it never raises), and in the
\* report every response's backend is listed either among validResponses or among
\* outliers with one of the four classifications, never in both.
C27_AnalyzeNeverRaises ==
    ~cOutliers.pending =>
        /\ cOutliers.report.threw = FALSE
        /\ \A i \in 1..Len(cResponses) :
              (cResponses[i].model \in ReportedValid) # (cResponses[i].model \in ReportedOutliers)
        /\ \A i \in 1..Len(cOutliers.report.outliers) :
              cOutliers.report.outliers[i].classification.type \in OutlierTypes

SmallSet == Len(cResponses) <= 4

LevelOfContradictions ==
    IF Len(cVariance.contradictions) = 0 THEN "low"
    ELSE IF Len(cVariance.contradictions) <= 2 THEN "medium"
    ELSE "high"

\* C28: for every response set with at most 4 responses the disagreement list is empty,
\* so the variance level is the one given by the number of contradiction pairs alone.
C28_NoDisagreementUpToFour ==
    (VarianceDone /\ SmallSet) =>
        /\ cVariance.disagreements = <<>>
        /\ cVariance.score = Len(cVariance.contradictions)
        /\ cVariance.level = LevelOfContradictions

C28_Witness ==
    /\ VarianceDone
    /\ Len(cResponses) = 4
    /\ \E claim \in AssertedClaims : Cardinality(Asserters(claim)) = 2
    /\ cVariance.disagreements = <<>>
    /\ Len(cVariance.contradictions) = 4
    /\ cVariance.level = "high"

\* beyond 4 responses a disagreement does occur
C28_BeyondFour ==
    /\ VarianceDone
    /\ Len(cResponses) = 5
    /\ Len(cVariance.disagreements) > 0

SavesOf(hash) == SelectSeq(auditSaves, LAMBDA sv : sv.hash = hash)

LastSave(hash) == SavesOf(hash)[Len(SavesOf(hash))]

Unexpired(hash, now) ==
    /\ SavesOf(hash) # <<>>
    /\ now < LastSave(hash).at + LastSave(hash).ttlDays * DayMs

ExpectedReply(hash, now) ==
    IF Unexpired(hash, now)
    THEN [found |-> TRUE, verdict |-> LastSave(hash).verdict,
          citation_url |-> LastSave(hash).url]
    ELSE Null

AuditChecked ==
    /\ auditReply' # auditReply
    /\ auditSaves' = auditSaves

\* C25: checkAuditCache(hash) returns a verdict if and only if the most recent
\* saveAuditResult for that hash has not yet expired (the current time is before its
\* save time plus its TTL), and then it is that save's verdict and citation; for an
\* expired or never-saved hash it returns null.
C25_AuditCacheFreshness ==
    [][AuditChecked => auditReply'.reply = ExpectedReply(auditReply'.hash, auditReply'.at)]_vars

C25_Witness ==
    /\ auditReply.pending = FALSE
    /\ Len(auditSaves) = 2
    /\ auditSaves[1].hash = auditReply.hash
    /\ auditSaves[2].hash = auditReply.hash
    /\ auditSaves[1].verdict = "verified"
    /\ auditSaves[1].ttlDays = 2
    /\ auditSaves[2].verdict = "debunked"
    /\ auditSaves[2].ttlDays = 1
    /\ auditSaves[2].at > auditSaves[1].at
    /\ auditReply.at = auditSaves[2].at
    /\ auditReply.reply = [found |-> TRUE, verdict |-> "debunked",
                           citation_url |-> auditSaves[2].url]

C25_ExpiredWitness ==
    /\ auditReply.pending = FALSE
    /\ Len(auditSaves) = 1
    /\ auditSaves[1].hash = auditReply.hash
    /\ auditSaves[1].ttlDays = 1
    /\ auditReply.at = auditSaves[1].at + DayMs
    /\ auditReply.reply = Null

\* the topics the schema refuses: the empty string and strings over 2000 characters
Malformed == TopicText(topic) = <<>> \/ Len(TopicText(topic)) > 2000

RejectedUntouched ==
    Malformed =>
        /\ pc \in {"called", "done"}
        /\ pc = "done" => (outcome.status = "rejected" /\ outcome.error = "validation")
        /\ topicVector = <<>>
        /\ workflow = NoWorkflow
        /\ calls = <<>>
        /\ slots = <<>>
        /\ results = <<>>
        /\ storage = "idle"
        /\ \A k \in 1..Len(semanticCache) : semanticCache[k].logged # "new"

\* no step is taken from the state in which a malformed request was rejected
RejectionFinal == ~(Malformed /\ pc = "done")

\* C21: a malformed request (the empty topic, an over-long topic) makes investigate
\* reject before any embedding request or cache lookup, any backend call and any
\* storage write, and nothing is done for the request afterwards (no retry).
C21_RejectedBeforeDispatch == []RejectedUntouched /\ [][RejectionFinal]_vars

C21_Witness ==
    /\ topic = "empty"
    /\ pc = "done"
    /\ outcome.status = "rejected"
    /\ outcome.error = "validation"
    /\ "gemini" \in registered
    /\ Len(semanticCache) = 2
    /\ calls = <<>>
    /\ storage = "idle"

\* a topic of blanks passes the schema (the length is tested before the trim)
C21_BlankDispatched ==
    /\ topic = "blank"
    /\ validatedTopic(TopicText(topic)) = <<>>
    /\ Len(calls) >= 1

ErrorPhases == {"dispatch", "consensus", "outlier"}

\* C22: every fatal error that leaves investigate carries structured context: the phase
\* in which it arose (dispatch, consensus or outlier), the topic, and the underlying
\* cause.
C22_StructuredContext ==
    outcome.status = "rejected" =>
        /\ outcome.thrown.phase \in ErrorPhases
        /\ outcome.thrown.topic = topic
        /\ outcome.thrown.cause # "none"

\* the rows logged before this request
LoggedBefore == SelectSeq(semanticCache, LAMBDA row : row.logged # "new")

SquaredNorm(v) == SumSeq([i \in 1..Len(v) |-> v[i] * v[i]])

InnerProduct(v, w) == SumSeq([i \in 1..Len(v) |-> v[i] * w[i]])

\* rows whose similarity to the embedding v is defined
Comparable(v) ==
    {k \in 1..Len(LoggedBefore) :
        /\ Len(LoggedBefore[k].vector) = Len(v)
        /\ SquaredNorm(LoggedBefore[k].vector) > 0
        /\ SquaredNorm(v) > 0}

\* cosine similarity of row k and v at least 0.92, squared and cross-multiplied
SimilarEnough(k, v) ==
    /\ InnerProduct(LoggedBefore[k].vector, v) >= 0
    /\ 2500 * InnerProduct(LoggedBefore[k].vector, v) * InnerProduct(LoggedBefore[k].vector, v)
          >= 2116 * SquaredNorm(LoggedBefore[k].vector) * SquaredNorm(v)

\* row k at least as similar to v as row j (inner products are non-negative here)
AtLeastAsSimilar(k, j, v) ==
    InnerProduct(LoggedBefore[k].vector, v) * InnerProduct(LoggedBefore[k].vector, v)
          * SquaredNorm(LoggedBefore[j].vector)
       >= InnerProduct(LoggedBefore[j].vector, v) * InnerProduct(LoggedBefore[j].vector, v)
          * SquaredNorm(LoggedBefore[k].vector)

CacheHolds == \E k \in Comparable(topicVector) : SimilarEnough(k, topicVector)

EmbeddingSettled == pc \notin {"called", "embedding"} /\ topicVector # <<>>

\* C26: when the semantic cache holds a logged result whose similarity to the request's
\* topic embedding is at least 0.92, investigate returns the most similar logged result,
\* marked as coming from the cache, without any generation call and without a new log
\* entry.
C26_CacheHitShortCircuits ==
    (EmbeddingSettled /\ CacheHolds) =>
        /\ pc = "done"
        /\ outcome.status = "cached"
        /\ outcome.fromCache
        /\ \E k \in Comparable(topicVector) :
              /\ LoggedBefore[k].logged = outcome.cached
              /\ \A j \in Comparable(topicVector) : AtLeastAsSimilar(k, j, topicVector)
        /\ calls = <<>>
        /\ workflow = NoWorkflow
        /\ storage = "idle"
        /\ LoggedBefore = semanticCache

C26_Witness ==
    /\ pc = "done"
    /\ topicVector = <<5, 0>>
    /\ Len(semanticCache) = 2
    /\ semanticCache[1].logged = "B"
    /\ SimilarEnough(1, topicVector)
    /\ SimilarEnough(2, topicVector)
    /\ outcome.status = "cached"
    /\ outcome.fromCache
    /\ outcome.cached = "A"
    /\ calls = <<>>
    /\ storage = "idle"

\* below the threshold the request is dispatched and its result logged with the vector
C26_MissLogged ==
    /\ pc = "done"
    /\ topicVector = <<4, 3>>
    /\ ~CacheHolds
    /\ Len(calls) >= 1
    /\ storage = "written"
    /\ semanticCache[Len(semanticCache)].logged = "new"

ByModel == outcome.costBreakdown.byModel

\* C29: in every result costBreakdown.total is the sum of the costBreakdown.byModel
\* entries and metadata.totalQueries is the number of byModel entries, also when the
\* roster holds the same model id in two slots.
C29_CostBreakdownConsistent ==
    outcome.status = "result" =>
        /\ outcome.costBreakdown.total = SumOver(ByModel, DOMAIN ByModel)
        /\ outcome.totalQueries = Cardinality(DOMAIN ByModel)

\* the family each model id belongs to
FamilyOf(modelId) ==
    CASE modelId \in {"gpt-4o-mini", "gpt-4o", "o3"} -> "openai"
      [] modelId \in {"claude-3.5-haiku", "claude-sonnet-4", "claude-sonnet-4.5",
                      "claude-3.5-sonnet"} -> "anthropic"
      [] modelId \in {"gemini-2.5-flash-lite", "gemini-2.5-flash", "gemini-2.5-pro",
                      "gemini-3.0-pro"} -> "gemini"
      [] modelId = "deepseek-chat" -> "deepseek"
      [] modelId \in {"llama-3.3-70b-versatile", "llama-3.1-70b-versatile",
                      "mixtral-8x7b-32768"} -> "groq"
      [] modelId = "ollama-llama3" -> "ollama"

\* C30: getProviderForModel routes every model id to the provider of its own family
\* whenever that provider is registered; a model id beginning with "ollama" resolves to
\* the Ollama provider and never to another backend's provider.
C30_RoutedToOwnFamily ==
    WorkflowSelected =>
        \A i \in 1..Len(Roster) :
            FamilyOf(Roster[i]) \in registered =>
                getProviderForModel(registered, Roster[i]) = FamilyOf(Roster[i])

\* with the Ollama provider registered, an "ollama" model id resolves to no provider
\* or to the OpenAI provider
C30_OllamaMisrouted ==
    /\ WorkflowSelected
    /\ Roster = <<"ollama-llama3">>
    /\ "ollama" \in registered
    /\ getProviderForModel(registered, "ollama-llama3")
          = (IF "openai" \in registered THEN "openai" ELSE "none")
    /\ "openai" \in registered

====
